---- MODULE Spec2Model ----
(***************************************************************************)
(* SizeKit: nail measurement from a photograph holding a reference card.   *)
(*                                                                         *)
(* The module holds several state machines over one set of variables:      *)
(*   SpecConvert   the millimetre <-> size conversions (detection.js and   *)
(*                 src/measurements.js), applied to drawn inputs;          *)
(*   SpecMeasure   reference scale, hand data and the two measurement      *)
(*                 operations (measureNails, calculateNailSizes);          *)
(*   SpecBoundary  calculateNailWidth / detectActualNailBoundary on        *)
(*                 synthetic images;                                       *)
(*   Spec          the CardDetector of modules/cardDetector.js;            *)
(*   SpecLock      the lock-capable CardDetector (detectCard, lock,        *)
(*                 unlock and ROI tracking);                               *)
(*   SpecSelect    _findCardRectangles and _selectBestCandidate on         *)
(*                 drawn polygon lists;                                    *)
(*   SpecReference detectReferenceObject of detection.js on photos;        *)
(*   SpecFlow      the capture flow of measurement.js and its camera;      *)
(*   SpecCamera    the camera screen of camera.js;                         *)
(*   SpecSmooth    the corner smoother fed with a steady detection;        *)
(*   SpecPolygon, SpecContours  the polygon and contour filters.           *)
(* A specification leaves the variables of the others at their idle value. *)
(*                                                                         *)
(* Numbers. A JavaScript number that need not be an integer is an IEEE     *)
(* double: a record of its sign, its 53-bit mantissa in two words and its  *)
(* exponent, with +, -, *, / and Math.sqrt rounded to nearest, ties to     *)
(* even, as the language rounds them. Pixel coordinates, counts and grey   *)
(* levels are integers; a value the code rounds to 0.1 is read in tenths.  *)
(* The exponential smoother of unnamed/part_005 works on integers only:    *)
(* emaRounded derives the rounding of its two double products from the     *)
(* binary expansions of 0.15 and 1 - 0.15.                                 *)
(***************************************************************************)
EXTENDS Integers, Sequences, FiniteSets

VARIABLES
    \* --- SpecConvert
    cpc,            \* "input" | "converted"
    mm1, mm2,       \* two millimetre inputs, in tenths of a millimetre
    conv,           \* the results of the conversions applied to mm1, mm2
    \* --- SpecMeasure
    mpc,            \* "capture" | "measured"
    referenceData,  \* None or the reference detection (type, pixelsPerMm)
    handData,       \* None or the hand detection (nails, confidence)
    measurements,   \* None or the outcome of the last measurement operation
    \* --- SpecBoundary
    bpc,            \* "input" | "done"
    imageData,      \* None (no image data) or a synthetic image
    landmarks,      \* the fingertip and its base joint
    nailWidth,      \* None or the record returned by calculateNailWidth
    \* --- Spec (CardDetector of modules/cardDetector.js)
    lastDetection,  \* None or the detection stored by the last successful call
    detectionHistory, stableFrames,
    smoothedCorners, \* NullCorners (null) or four smoothed corners
    returned,       \* what the last detectCard call returned (None before)
    frameCandidates \* number of rectangles that survived filtering in that call
                    \* (0 before the first call, -1 when the call threw)
    ,
    \* --- SpecLock (lock-capable CardDetector of unnamed/part_005)
    isLocked, trackingROI,
    cvLastDetection,   \* lastDetection of that detector
    cvSmoothedCorners, \* its smoothedCorners (NullCorners for null)
    lockCall,          \* the last operation on it, with what it did
    lockCalls,         \* number of operations so far
    \* --- SpecPolygon (_approximatePolygon of modules/cardDetector.js)
    ppc,            \* "contour" | "approximated"
    apContour,      \* the contour handed to _approximatePolygon
    apPolygon,      \* what it returned (<<>> before the call)
    \* --- SpecFlow (two-photo workflow of measurement.js)
    screen,            \* the active screen
    currentHand,       \* measurementState.currentHand
    leftHandPhoto, rightHandPhoto, \* 0 for null, else the number of the capture
    cameraStream,      \* TRUE when measurementState.cameraStream is set
    liveStreams,       \* media streams whose tracks have not been stopped
    captureBtnDisabled, beginBtnDisabled,
    capturePc,         \* "idle" | "capturing" | "validating": the handleCapture in flight
    beginPc,           \* "idle" | "loading": the begin handler in flight
    cameraRequests,    \* startCamera calls still waiting for getUserMedia, counted by
                       \* attempt and by whether their state object was replaced since
    photoCount,        \* captures so far
    processing,        \* processMeasurements calls still running
    processRead,       \* the photos the last processMeasurements call read so far,
                       \* in the order of its reads (<<>> before the first call)
    handposeModel,     \* TRUE when the handposeModel of detection.js is set
    detectionData,     \* leftHandReferenceData, rightHandReferenceData, leftHandData,
                       \* rightHandData: 0 for null, else the number of the photo
    \* --- SpecContours (_findContours of modules/cardDetector.js)
    fcPc,           \* "scan" | "trace" | "done"
    fcInput,        \* the edge map, its size and the guide region
    fcVisited,      \* the pixels marked in visited
    fcContours,     \* the contours kept so far
    fcStack,        \* the stack of the trace in progress
    fcContour,      \* the contour of the trace in progress
    fcReturned,     \* what _findContours returned (<<>> before)
    \* --- SpecSelect (_selectBestCandidate of modules/cardDetector.js)
    selPc,          \* "filter" | "select" | "done"
    selInput,       \* the polygons, the image width and the guide region
    selRectangles,  \* what _findCardRectangles returned
    selChosen,      \* what _selectBestCandidate returned (None for null)
    \* --- SpecReference (detectReferenceObject of detection.js)
    refPc,          \* "loading" | "card" | "quarter" | "settled"
    refPhoto,       \* the photo and the detectCreditCard definition in force
    refCard,        \* what detectCreditCard returned (None for null)
    refDetection,   \* the local variable detection
    refOutcome,     \* None, or how the promise settled
    \* --- SpecCamera (camera.js)
    camSupported,   \* navigator.mediaDevices.getUserMedia exists
    camScreen,      \* "landing" | "camera" | "error"
    currentStream,  \* TRUE when currentStream refers to a stream
    cameraActive,
    camPrimary,     \* initializeCamera calls waiting for the first getUserMedia
    camFallback,    \* initializeCamera calls waiting for the fallback getUserMedia
    camPlays,       \* cameraPreview.play() promises not yet settled
    camLoading,     \* the loading indicator is shown
    \* --- SpecSmooth (_smoothCorners of unnamed/part_005 under a steady detection)
    emaSmoothed,    \* smoothedCorners (NullCorners for null)
    emaDetected     \* the corners of every detection

varsConvert  == <<cpc, mm1, mm2, conv>>
varsMeasure  == <<mpc, referenceData, handData, measurements>>
varsBoundary == <<bpc, imageData, landmarks, nailWidth>>
varsCard     == <<lastDetection, detectionHistory, stableFrames, smoothedCorners,
                  returned, frameCandidates>>
varsLock     == <<isLocked, trackingROI, cvLastDetection, cvSmoothedCorners,
                  lockCall, lockCalls>>

varsPolygon  == <<ppc, apContour, apPolygon>>

varsFlow     == <<screen, currentHand, leftHandPhoto, rightHandPhoto, cameraStream,
                  liveStreams,
                  captureBtnDisabled, beginBtnDisabled, capturePc, beginPc,
                  cameraRequests, photoCount, processing, processRead, detectionData,
                  handposeModel>>

varsContours == <<fcPc, fcInput, fcVisited, fcContours, fcStack, fcContour, fcReturned>>

varsSelect == <<selPc, selInput, selRectangles, selChosen>>

varsReference == <<refPc, refPhoto, refCard, refDetection, refOutcome>>

varsCamera == <<camSupported, camScreen, currentStream, cameraActive, camPrimary,
               camFallback, camPlays, camLoading>>

varsSmooth == <<emaSmoothed, emaDetected>>

vars == <<varsConvert, varsMeasure, varsBoundary, varsCard, varsLock, varsPolygon,
          varsFlow, varsContours, varsSelect, varsReference, varsCamera, varsSmooth>>

\* null / undefined, for values that are records otherwise.
None == [null |-> TRUE]

IdleConvert  == cpc = "idle" /\ mm1 = 0 /\ mm2 = 0 /\ conv = None
IdleMeasure  == mpc = "idle" /\ referenceData = None /\ handData = None
                /\ measurements = None
IdleBoundary == bpc = "idle" /\ imageData = None /\ landmarks = None
                /\ nailWidth = None
NullCorners  == <<>>
IdleCard     == lastDetection = None /\ detectionHistory = <<>> /\ stableFrames = 0
                /\ smoothedCorners = NullCorners /\ returned = None
                /\ frameCandidates = 0
IdleLock     == isLocked = FALSE /\ trackingROI = None /\ cvLastDetection = None
                /\ cvSmoothedCorners = NullCorners /\ lockCall = None /\ lockCalls = 0
IdlePolygon  == ppc = "idle" /\ apContour = <<>> /\ apPolygon = <<>>
IdleFlow     == screen = "idle" /\ currentHand = "left" /\ leftHandPhoto = 0
                /\ rightHandPhoto = 0 /\ cameraStream = FALSE /\ liveStreams = 0
                /\ captureBtnDisabled = FALSE /\ beginBtnDisabled = FALSE
                /\ capturePc = "idle" /\ beginPc = "idle"
                /\ cameraRequests = [primary |-> 0, fallback |-> 0,
                                     stalePrimary |-> 0, staleFallback |-> 0]
                /\ photoCount = 0 /\ processing = 0 /\ processRead = <<>>
                /\ detectionData = [leftHandReferenceData |-> 0,
                                    rightHandReferenceData |-> 0,
                                    leftHandData |-> 0, rightHandData |-> 0]
                /\ handposeModel = FALSE
IdleContours == fcPc = "idle" /\ fcInput = None /\ fcVisited = {} /\ fcContours = <<>>
                /\ fcStack = <<>> /\ fcContour = <<>> /\ fcReturned = <<>>
IdleSelect == selPc = "idle" /\ selInput = None /\ selRectangles = <<>> /\ selChosen = None
IdleReference == refPc = "idle" /\ refPhoto = None /\ refCard = None /\ refDetection = None /\ refOutcome = None
IdleCamera == camSupported = FALSE /\ camScreen = "idle" /\ currentStream = FALSE /\ cameraActive = FALSE
                /\ camPrimary = 0 /\ camFallback = 0 /\ camPlays = 0
                /\ camLoading = FALSE
IdleSmooth == emaSmoothed = NullCorners /\ emaDetected = NullCorners

(***************************************************************************)
(* Arithmetic helpers                                                      *)
(***************************************************************************)
MaxOf(a, b) == IF a >= b THEN a ELSE b
MinOf(a, b) == IF a <= b THEN a ELSE b
SetMax(S) == CHOOSE x \in S : \A y \in S : y <= x
SetMin(S) == CHOOSE x \in S : \A y \in S : x <= y
Abs(a) == IF a < 0 THEN 0 - a ELSE a

\* Math.round(n / d) for integers n and d > 0: the nearest integer, ties
\* towards +infinity. For the counts d <= 6 of the smoothers the double
\* n / d is a half exactly when the quotient is (d even), and lies on the
\* quotient's side of every half otherwise.
MathRound(n, d) == (2 * n + d) \div (2 * d)

(***************************************************************************)
(* JavaScript numbers: IEEE 754 binary64, round to nearest, ties to even   *)
(***************************************************************************)
\* A finite double is [neg, hi, lo, exp]: the value (-1)^neg * (hi * 2^28 + lo) * 2^exp
\* with 2^52 <= hi * 2^28 + lo < 2^53, or zero (hi = lo = exp = 0). Integers
\* of the model checker have 32 bits, hence the two halves and the limbs of 14 bits.
\* NaN and Infinity are values of their own, which only the operators that
\* say so take or return.
P14 == 2^14
P24 == 2^24
P25 == 2^25
P28 == 2^28

\* --- naturals of up to 58 bits as pairs <<hi, lo>>: hi * 2^28 + lo
WLess(a, b) == a[1] < b[1] \/ (a[1] = b[1] /\ a[2] < b[2])
WAdd(a, b) == <<a[1] + b[1] + ((a[2] + b[2]) \div P28), (a[2] + b[2]) % P28>>
WSub(a, b) ==
    IF a[2] >= b[2] THEN <<a[1] - b[1], a[2] - b[2]>>
    ELSE <<a[1] - b[1] - 1, a[2] + P28 - b[2]>>
WDouble(a) == <<2 * a[1] + ((2 * a[2]) \div P28), (2 * a[2]) % P28>>
WOdd(a) == a[2] % 2 = 1
\* floor(a / 2^s) and whether a bit was lost, 0 <= s
WShiftRight(a, s) ==
    IF s = 0 THEN [q |-> a, lost |-> FALSE]
    ELSE IF s >= 58 THEN [q |-> <<0, 0>>, lost |-> a # <<0, 0>>]
    ELSE IF s >= 28
    THEN [q |-> <<0, a[1] \div 2^(s - 28)>>,
          lost |-> a[2] # 0 \/ a[1] % 2^(s - 28) # 0]
    ELSE [q |-> <<a[1] \div 2^s, (a[2] \div 2^s) + (a[1] % 2^s) * 2^(28 - s)>>,
          lost |-> a[2] % 2^s # 0]

DZero == [neg |-> FALSE, hi |-> 0, lo |-> 0, exp |-> 0]
DIsZero(a) == a.hi = 0
DMant(a) == <<a.hi, a.lo>>

\* The double of sign neg and of value (q + 1 if up, else q) * 2^e, for
\* 2^52 <= q < 2^53.
DPack(neg, q, e, up) ==
    IF up /\ q[1] = P25 - 1 /\ q[2] = P28 - 1
    THEN [neg |-> neg, hi |-> P24, lo |-> 0, exp |-> e + 1]
    ELSE IF up THEN [neg |-> neg, hi |-> WAdd(q, <<0, 1>>)[1],
                     lo |-> WAdd(q, <<0, 1>>)[2], exp |-> e]
    ELSE [neg |-> neg, hi |-> q[1], lo |-> q[2], exp |-> e]

\* the number of bits of n, 0 <= n < 2^31
bits16(n) == CHOOSE b \in 0..16 : n < 2^b /\ (b = 0 \/ n >= 2^(b - 1))
bitLength(n) == IF n >= 2^16 THEN 16 + bits16(n \div 2^16) ELSE bits16(n)

\* The double of an integer, |n| < 2^31.
DNat(n, b) ==
    IF b <= 25 THEN [neg |-> FALSE, hi |-> n * 2^(25 - b), lo |-> 0, exp |-> b - 53]
    ELSE [neg |-> FALSE, hi |-> n \div 2^(b - 25),
          lo |-> (n % 2^(b - 25)) * 2^(53 - b), exp |-> b - 53]
DInt(n) ==
    IF n = 0 THEN DZero
    ELSE IF n < 0 THEN [DNat(0 - n, bitLength(0 - n)) EXCEPT !.neg = TRUE]
    ELSE DNat(n, bitLength(n))

DNeg(a) == IF DIsZero(a) THEN a ELSE [a EXCEPT !.neg = ~a.neg]
DAbs(a) == [a EXCEPT !.neg = FALSE]

MagLess(a, b) ==
    IF DIsZero(b) THEN FALSE
    ELSE IF DIsZero(a) THEN TRUE
    ELSE a.exp < b.exp \/ (a.exp = b.exp /\ WLess(DMant(a), DMant(b)))
DLess(a, b) ==
    IF a.neg /\ ~b.neg THEN TRUE
    ELSE IF ~a.neg /\ b.neg THEN FALSE
    ELSE IF a.neg THEN MagLess(b, a)
    ELSE MagLess(a, b)

\* --- multiplication, on limbs of 14 bits
limbs(a) == <<a.lo % P14, a.lo \div P14, a.hi % P14, a.hi \div P14>>
columns(x, y) ==
    << x[1] * y[1],
       x[1] * y[2] + x[2] * y[1],
       x[1] * y[3] + x[2] * y[2] + x[3] * y[1],
       x[1] * y[4] + x[2] * y[3] + x[3] * y[2] + x[4] * y[1],
       x[2] * y[4] + x[3] * y[3] + x[4] * y[2],
       x[3] * y[4] + x[4] * y[3],
       x[4] * y[4] >>
\* The limbs of the number whose columns are cols; acc holds the limbs found,
\* followed by the carry into the next column.
RECURSIVE carried(_, _)
carried(cols, acc) ==
    IF Len(acc) > Len(cols) THEN acc
    ELSE carried(cols, SubSeq(acc, 1, Len(acc) - 1)
                         \o << (cols[Len(acc)] + acc[Len(acc)]) % P14,
                               (cols[Len(acc)] + acc[Len(acc)]) \div P14 >>)
\* the product p (8 limbs) rounded at bit 42 + t
mulRounded(neg, p, t, e) ==
    DPack(neg,
          << (p[6] \div 2^t) + p[7] * 2^(14 - t) + p[8] * 2^(28 - t),
             (p[4] \div 2^t) + p[5] * 2^(14 - t) + (p[6] % 2^t) * 2^(28 - t) >>,
          e + 42 + t,
          /\ (p[4] % 2^t) \div 2^(t - 1) = 1
          /\ \/ (p[4] % 2^(t - 1)) # 0 \/ p[1] + p[2] + p[3] # 0
             \/ (p[4] \div 2^t) % 2 = 1)
mulProduct(neg, p, e) ==
    IF p[8] >= 128 THEN mulRounded(neg, p, 11, e) ELSE mulRounded(neg, p, 10, e)
DMul(a, b) ==
    IF DIsZero(a) \/ DIsZero(b) THEN DZero
    ELSE mulProduct(a.neg # b.neg, carried(columns(limbs(a), limbs(b)), <<0>>),
                    a.exp + b.exp)

\* --- division: long division on limbs of 14 bits. Both mantissas are
\* taken times 8, so that the divisor's top limb is at least 2^13 and the
\* quotient digit estimated from the two top limbs of the remainder is at
\* most 2 too large (Knuth, algorithm D).
times8Limbs(a) == carried(<<8 * limbs(a)[1], 8 * limbs(a)[2], 8 * limbs(a)[3],
                            8 * limbs(a)[4]>>, <<0>>)
\* r * 2^14 - q * d on limbs, least significant first, followed by the
\* carry out of the top limb: negative when q is too large. acc holds the
\* limbs found, followed by the carry.
below(r, i) == IF i = 1 THEN 0 ELSE r[i - 1]
RECURSIVE mulSub(_, _, _, _)
mulSub(r, d, q, acc) ==
    IF Len(acc) > 4 THEN SubSeq(acc, 1, 4) \o <<r[4] + acc[5]>>
    ELSE mulSub(r, d, q, SubSeq(acc, 1, Len(acc) - 1)
                  \o << (below(r, Len(acc)) - q * d[Len(acc)] + acc[Len(acc)]) % P14,
                        (below(r, Len(acc)) - q * d[Len(acc)] + acc[Len(acc)]) \div P14 >>)
\* The quotient digit and the remainder, from an estimate that is not too small.
RECURSIVE digitFrom(_, _, _)
settled(q, t, r, d) == IF t[5] < 0 THEN digitFrom(r, d, q - 1) ELSE <<q, t>>
digitFrom(r, d, q) == settled(q, mulSub(r, d, q, <<0>>), r, d)
nextDigit(r, d) == digitFrom(r, d, MinOf(P14 - 1, (r[4] * P14 + r[3]) \div d[4]))
\* The long division of r by d continued to n digits: the digits, least
\* significant first, and the remainder.
dividing(r, d, qs) == [digits |-> qs, r |-> r, d |-> d]
withDigit(st, qr) == [digits |-> <<qr[1]>> \o st.digits, r |-> qr[2], d |-> st.d]
RECURSIVE quotient(_, _)
quotient(st, n) ==
    IF Len(st.digits) >= n THEN <<st.digits, st.r>>
    ELSE quotient(withDigit(st, nextDigit(st.r, st.d)), n)
\* qr: the digits q0..q4 of floor(Ma * 2^56 / Mb) and the remainder; the
\* lowest limb stands for the remainder
withSticky(qr) ==
    <<IF qr[2][1] + qr[2][2] + qr[2][3] + qr[2][4] = 0 THEN 0 ELSE 1,
      0, 0, qr[1][1], qr[1][2], qr[1][3], qr[1][4], qr[1][5]>>
divRounded(neg, qr, e) ==
    IF qr[1][5] = 1 THEN mulRounded(neg, withSticky(qr), 4, e - 98)
    ELSE mulRounded(neg, withSticky(qr), 3, e - 98)
DDiv(a, b) ==
    IF DIsZero(a) THEN DZero
    ELSE IF WLess(DMant(a), DMant(b))
    THEN divRounded(a.neg # b.neg,
                    quotient(dividing(times8Limbs(a), times8Limbs(b), <<0>>), 5),
                    a.exp - b.exp)
    ELSE divRounded(a.neg # b.neg,
                    quotient(dividing(times8Limbs([hi |-> WSub(DMant(a), DMant(b))[1],
                                                   lo |-> WSub(DMant(a), DMant(b))[2]]),
                                      times8Limbs(b), <<1>>), 5),
                    a.exp - b.exp)

\* --- addition of magnitudes, |x| >= |y| > 0, with three guard bits
times8(m) == <<8 * m[1] + ((8 * m[2]) \div P28), (8 * m[2]) % P28>>
jammed(sh) == IF sh.lost /\ sh.q[2] % 2 = 0 THEN <<sh.q[1], sh.q[2] + 1>> ELSE sh.q
\* s rounded at bit k (k >= 1): s = q * 2^k + rem
roundedAt(neg, s, k, e) ==
    DPack(neg, WShiftRight(s, k).q, e + k,
          /\ (s[2] \div 2^(k - 1)) % 2 = 1
          /\ \/ s[2] % 2^(k - 1) # 0
             \/ (s[2] \div 2^k) % 2 = 1)
\* a * 2^k, for 0 <= k and a * 2^k < 2^57, and the number of bits of a > 0
WShiftLeft(a, k) ==
    IF k = 0 THEN a
    ELSE IF k >= 28 THEN <<a[2] * 2^(k - 28), 0>>
    ELSE <<a[1] * 2^k + (a[2] \div 2^(28 - k)), (a[2] % 2^(28 - k)) * 2^k>>
WBits(a) == IF a[1] = 0 THEN bitLength(a[2]) ELSE 28 + bitLength(a[1])
\* s > 0 of at most 57 bits, shifted left to 56 bits if it has fewer, and rounded
shifted(neg, s, e, k) == roundedAt(neg, WShiftLeft(s, k), 3, e - k)
normalised(neg, s, e) ==
    IF s[1] >= 2^28 THEN roundedAt(neg, s, 4, e) ELSE shifted(neg, s, e, 56 - WBits(s))
addMag(neg, x, y) ==
    normalised(neg, WAdd(times8(DMant(x)),
                         jammed(WShiftRight(times8(DMant(y)), x.exp - y.exp))),
               x.exp - 3)
subMag(neg, x, y, d) ==
    IF d = <<0, 0>> THEN DZero ELSE normalised(neg, d, x.exp - 3)
DAdd(a, b) ==
    IF DIsZero(a) THEN b
    ELSE IF DIsZero(b) THEN a
    ELSE IF a.neg = b.neg
    THEN (IF MagLess(a, b) THEN addMag(a.neg, b, a) ELSE addMag(a.neg, a, b))
    ELSE IF MagLess(a, b)
    THEN subMag(b.neg, b, a, WSub(times8(DMant(b)),
                    jammed(WShiftRight(times8(DMant(a)), b.exp - a.exp))))
    ELSE subMag(a.neg, a, b, WSub(times8(DMant(a)),
                    jammed(WShiftRight(times8(DMant(b)), a.exp - b.exp))))
DSub(a, b) == DAdd(a, DNeg(b))

\* --- Math.sqrt: the square root with remainder of n * 2^56, where
\* 2^54 <= n < 2^56 is the mantissa times 4 or 8, found 14, 28 and 56 bits
\* at a time (Zimmermann, Karatsuba square root), then rounded to 53 bits.
RECURSIVE isqrtFrom(_, _)
isqrtFrom(n, x) ==
    IF (x + n \div x) \div 2 >= x THEN x ELSE isqrtFrom(n, (x + n \div x) \div 2)
withRemainder(n, s) == <<s, n - s * s>>
\* the root is one less when the remainder came out negative
lowered(s, r) == IF r < 0 THEN <<s - 1, r + 2 * s - 1>> ELSE <<s, r>>
divided28(s, t, a0) ==
    lowered(s * P14 + t \div (2 * s),
            (t % (2 * s)) * P14 + a0 - (t \div (2 * s)) ^ 2)
from14(sr, lo) == divided28(sr[1], sr[2] * P14 + lo \div P14, lo % P14)
\* root and remainder of hi * 2^28 + lo
root28(hi, lo) == from14(withRemainder(hi, isqrtFrom(hi, P14)), lo)
squared(qh, ql) ==
    << qh * qh + (2 * qh * ql) \div P14
         + (((2 * qh * ql) % P14) * P14 + ql * ql) \div P28,
       (((2 * qh * ql) % P14) * P14 + ql * ql) % P28 >>
\* The root of 56 bits, its last bit set when the remainder is not zero,
\* rounded to 53 bits: s the root of 28 bits, q the next 28 bits, u2 and q2
\* the two terms of the remainder u2 - q2.
jammedRoot(s, q, u2, q2, e) ==
    IF WLess(u2, q2)
    THEN roundedAt(FALSE, <<s, IF (q - 1) % 2 = 0
                                  /\ WAdd(u2, WDouble(<<s, q>>)) # WAdd(q2, <<0, 1>>)
                               THEN q ELSE q - 1>>, 3, e)
    ELSE roundedAt(FALSE, <<s, IF q % 2 = 0 /\ u2 # q2 THEN q + 1 ELSE q>>, 3, e)
divided56(s, qr, e) ==
    jammedRoot(s, qr[1][2] * P14 + qr[1][1],
               WDouble(<<qr[2][4] * P14 + qr[2][3], qr[2][2] * P14 + qr[2][1]>>),
               squared(qr[1][2], qr[1][1]), e)
root56(sr, e) ==
    IF sr[2] = 2 * sr[1] THEN roundedAt(FALSE, <<sr[1], P28 - 1>>, 3, e)
    ELSE divided56(sr[1],
                   quotient(dividing(limbs([hi |-> sr[2] \div 2, lo |-> (sr[2] % 2) * 2^27]),
                                     limbs([hi |-> sr[1], lo |-> 0]), <<>>), 2), e)
\* Math.sqrt(a), a >= 0: the mantissa times 4, or times 8 for an odd exponent
sqrtOfMantissa(m4, e) == root56(root28(m4[1], m4[2]), (e \div 2) - 29)
DSqrt(a) ==
    IF DIsZero(a) THEN DZero
    ELSE IF a.exp % 2 = 0 THEN sqrtOfMantissa(WDouble(WDouble(DMant(a))), a.exp)
    ELSE sqrtOfMantissa(WDouble(WDouble(WDouble(DMant(a)))), a.exp - 1)

\* --- to integers, |a| < 2^31
\* floor(|a|) and the bit of weight 1/2 and whether lower bits are set
DParts(a) ==
    IF DIsZero(a) THEN [int |-> 0, half |-> FALSE, rest |-> FALSE]
    ELSE IF 0 - a.exp > 53 THEN [int |-> 0, half |-> FALSE, rest |-> TRUE]
    ELSE [int |-> WShiftRight(DMant(a), 0 - a.exp).q[1] * P28 + WShiftRight(DMant(a), 0 - a.exp).q[2],
          half |-> WOdd(WShiftRight(DMant(a), 0 - a.exp - 1).q),
          rest |-> WShiftRight(DMant(a), 0 - a.exp - 1).lost]
\* Math.round(a)
DRound(a) ==
    IF ~a.neg THEN DParts(a).int + (IF DParts(a).half THEN 1 ELSE 0)
    ELSE 0 - (DParts(a).int + (IF DParts(a).half /\ DParts(a).rest THEN 1 ELSE 0))
\* Math.floor(a)
DFloor(a) ==
    IF ~a.neg THEN DParts(a).int
    ELSE 0 - (DParts(a).int + (IF DParts(a).half \/ DParts(a).rest THEN 1 ELSE 0))

\* --- what is not a finite number: 0 / 0, and x / 0 for x > 0
NaN == [nan |-> TRUE]
Infinity == [inf |-> TRUE]
\* Math.max(a, b) and Math.min(a, b) of finite numbers or NaN
DMax(a, b) == IF a = NaN \/ b = NaN THEN NaN ELSE IF DLess(a, b) THEN b ELSE a
DMin(a, b) == IF a = NaN \/ b = NaN THEN NaN ELSE IF DLess(b, a) THEN b ELSE a

\* The number a decimal literal n / 10^k denotes, and the number
\* Math.round(x * 10) / 10 that a count t of tenths stands for.
Decimal(n, d) == DDiv(DInt(n), DInt(d))
tenths(t) == Decimal(t, 10)

(***************************************************************************)
(* detection.js: size table (one millimetre value per size) and            *)
(* conversions                                                             *)
(***************************************************************************)
NAIL_SIZE_TABLE ==
    << [size |-> 0, mm |-> 17], [size |-> 1, mm |-> 16], [size |-> 2, mm |-> 15],
       [size |-> 3, mm |-> 14], [size |-> 4, mm |-> 13], [size |-> 5, mm |-> 12],
       [size |-> 6, mm |-> 11], [size |-> 7, mm |-> 10], [size |-> 8, mm |-> 9],
       [size |-> 9, mm |-> 8] >>

\* Mutant: the two edge cases exchanged.
Det_mmToSizeNumber_EdgesSwapped(mm) ==
    LET roundedMm == DRound(mm)
        exact == {i \in 1..Len(NAIL_SIZE_TABLE) : NAIL_SIZE_TABLE[i].mm = roundedMm}
    IN  IF exact # {} THEN NAIL_SIZE_TABLE[SetMin(exact)].size
        ELSE IF roundedMm >= 17 THEN 9
        ELSE IF roundedMm <= 8 THEN 0
        ELSE MaxOf(0, MinOf(9, 17 - roundedMm))

\* mmToSizeNumber(mm) of detection.js.
Det_mmToSizeNumber(mm) ==
    LET roundedMm == DRound(mm)
        exact == {i \in 1..Len(NAIL_SIZE_TABLE) : NAIL_SIZE_TABLE[i].mm = roundedMm}
    IN  IF exact # {} THEN NAIL_SIZE_TABLE[SetMin(exact)].size
        ELSE IF roundedMm >= 17 THEN 0
        ELSE IF roundedMm <= 8 THEN 9
        ELSE MaxOf(0, MinOf(9, 17 - roundedMm))

\* Mutant: the lookup by size is off by one entry.
Det_sizeNumberToMm_Shifted(sizeNumber) ==
    LET found == {i \in 1..Len(NAIL_SIZE_TABLE) : NAIL_SIZE_TABLE[i].size = sizeNumber + 1}
    IN  IF found # {} THEN NAIL_SIZE_TABLE[SetMin(found)].mm ELSE 13

\* sizeNumberToMm(sizeNumber) of detection.js.
Det_sizeNumberToMm(sizeNumber) ==
    LET found == {i \in 1..Len(NAIL_SIZE_TABLE) : NAIL_SIZE_TABLE[i].size = sizeNumber}
    IN  IF found # {} THEN NAIL_SIZE_TABLE[SetMin(found)].mm ELSE 13

(***************************************************************************)
(* src/config.js and src/measurements.js: band table and conversions       *)
(***************************************************************************)
nailSizeTable ==
    << [size |-> 0,  minMm |-> 16, maxMm |-> 18], [size |-> 1,  minMm |-> 15, maxMm |-> 16],
       [size |-> 2,  minMm |-> 14, maxMm |-> 15], [size |-> 3,  minMm |-> 13, maxMm |-> 14],
       [size |-> 4,  minMm |-> 12, maxMm |-> 13], [size |-> 5,  minMm |-> 11, maxMm |-> 12],
       [size |-> 6,  minMm |-> 10, maxMm |-> 11], [size |-> 7,  minMm |-> 9,  maxMm |-> 10],
       [size |-> 8,  minMm |-> 8,  maxMm |-> 9],  [size |-> 9,  minMm |-> 7,  maxMm |-> 8],
       [size |-> 10, minMm |-> 6,  maxMm |-> 7],  [size |-> 11, minMm |-> 5,  maxMm |-> 6] >>

\* Mutant: the lower limit of a band is excluded.
Meas_mmToSizeNumber_OpenBand(mm) ==
    LET match == {i \in 1..Len(nailSizeTable) :
                     /\ DLess(DInt(nailSizeTable[i].minMm), mm)
                     /\ DLess(mm, DInt(nailSizeTable[i].maxMm))}
    IN  IF match # {} THEN nailSizeTable[SetMin(match)].size
        ELSE IF ~DLess(mm, DInt(18)) THEN 0
        ELSE IF DLess(mm, DInt(5)) THEN 11
        ELSE MaxOf(0, MinOf(11, DRound(DSub(DInt(18), mm))))

\* mmToSizeNumber(mm) of src/measurements.js: the first band with
\* mm >= minMm && mm < maxMm, else 0 for mm >= 18, 11 for mm < 5, else
\* Math.round(18 - mm) clamped to 0..11.
Meas_mmToSizeNumber(mm) ==
    LET match == {i \in 1..Len(nailSizeTable) :
                     /\ ~DLess(mm, DInt(nailSizeTable[i].minMm))
                     /\ DLess(mm, DInt(nailSizeTable[i].maxMm))}
    IN  IF match # {} THEN nailSizeTable[SetMin(match)].size
        ELSE IF ~DLess(mm, DInt(18)) THEN 0
        ELSE IF DLess(mm, DInt(5)) THEN 11
        ELSE MaxOf(0, MinOf(11, DRound(DSub(DInt(18), mm))))

\* Config.getSizeInfo(sizeNumber): the entry, or None for undefined.
getSizeInfo(sizeNumber) ==
    LET found == {i \in 1..Len(nailSizeTable) : nailSizeTable[i].size = sizeNumber}
    IN  IF found # {} THEN nailSizeTable[SetMin(found)] ELSE None

\* sizeNumberToMm(sizeNumber) of src/measurements.js; average is kept doubled.
Meas_sizeNumberToMm(sizeNumber) ==
    LET sizeInfo == getSizeInfo(sizeNumber)
    IN  IF sizeInfo # None
        THEN [min |-> sizeInfo.minMm, max |-> sizeInfo.maxMm,
              average2 |-> sizeInfo.minMm + sizeInfo.maxMm]
        ELSE [min |-> 7, max |-> 18, average2 |-> 24]

(***************************************************************************)
(* SpecConvert: the conversions applied to two drawn millimetre values     *)
(***************************************************************************)
MaxMmTenths == 200
MmTenths == 0..MaxMmTenths

\* What a caller obtains from the four conversion functions for the number
\* mm.
converted(det, band) ==
    [ det      |-> det,
      detBack  |-> Det_sizeNumberToMm(det),
      band     |-> band,
      bandBack |-> Meas_sizeNumberToMm(band) ]
Conversions(mm) == converted(Det_mmToSizeNumber(mm), Meas_mmToSizeNumber(mm))
\* The conversions of every input, computed once: the input t stands for the
\* number t / 10 as JavaScript reads it.
ConversionsOf == [t \in MmTenths |-> Conversions(tenths(t))]

InitConvert ==
    /\ cpc = "input"
    /\ mm1 \in MmTenths
    /\ mm2 \in MmTenths
    /\ conv = None
    /\ IdleMeasure /\ IdleBoundary /\ IdleCard /\ IdleLock /\ IdlePolygon /\ IdleFlow /\ IdleContours /\ IdleSelect /\ IdleReference /\ IdleCamera /\ IdleSmooth

Convert ==
    /\ cpc = "input"
    /\ cpc' = "converted"
    /\ conv' = <<ConversionsOf[mm1], ConversionsOf[mm2]>>
    /\ UNCHANGED <<mm1, mm2, varsMeasure, varsBoundary, varsCard, varsLock, varsPolygon, varsFlow, varsContours, varsSelect, varsReference, varsCamera, varsSmooth>>

NextConvert == Convert
SpecConvert == InitConvert /\ [][NextConvert]_vars

(***************************************************************************)
(* SpecMeasure: reference scale, hand data, and the two operations that    *)
(* turn pixel widths into sizes                                            *)
(***************************************************************************)
\* CURVATURE_MULTIPLIER = 1.06, in hundredths.
CURVATURE_MULTIPLIER == 106
minPixelsPerMm == 2
maxPixelsPerMm == 50

fingerNames == <<"Thumb", "Index", "Middle", "Ring", "Pinky">>

\* REFERENCE_OBJECTS: the literals 85.6 and 24.26.
creditCardWidthMm == Decimal(856, 10)
quarterDiameterMm == Decimal(2426, 100)

\* The detection detectCreditCard returns for a best rectangle `width` pixels
\* wide: pixelsPerMm = bestRect.width / 85.6.
detectCreditCard(width) ==
    [ type |-> "creditCard",
      pixelsPerMm |-> DDiv(DInt(width), creditCardWidthMm),
      boundingBox |-> [width |-> width],
      referenceSizeMm |-> creditCardWidthMm ]

\* The detection detectQuarter returns for a circle of findCircles of the
\* given radius: pixelsPerMm = circle.radius * 2 / 24.26.
quarterDetection(radius) ==
    [ type |-> "quarter",
      pixelsPerMm |-> DDiv(DInt(radius * 2), quarterDiameterMm),
      boundingBox |-> [x |-> 50, y |-> 50, radius |-> radius],
      referenceSizeMm |-> quarterDiameterMm ]

\* Config.isValidScale(pixelsPerMm).
isValidScale(pixelsPerMm) ==
    /\ ~DLess(pixelsPerMm, DInt(minPixelsPerMm))
    /\ ~DLess(DInt(maxPixelsPerMm), pixelsPerMm)

\* The two shapes of record calculateNailWidth returns.
FailedWidth == [pixels |-> 0, method |-> "failed", error |-> "Detection failed"]
SegmentationWidth(p) == [pixels |-> p, method |-> "segmentation", error |-> ""]

\* Math.round(mm * 10) / 10, kept as the count of tenths Math.round returns.
roundedTenths(mm) == DRound(DMul(mm, DInt(10)))

\* The record measureNails builds from chordMm and curvedMm.
measuredNail(nail, chordMm, curvedMm, confidence) ==
    [ finger     |-> nail.finger,
      chordMm    |-> roundedTenths(chordMm),
      curvedMm   |-> roundedTenths(curvedMm),
      widthMm    |-> roundedTenths(curvedMm),
      sizeNumber |-> Det_mmToSizeNumber(curvedMm),
      confidence |-> IF nail.width.pixels > 0 THEN confidence ELSE 0 ]

\* Mutant: the curvature multiplier is not applied.
Det_measureNail_NoCurvature(nail, pixelsPerMm, confidence) ==
    measuredNail(nail, DDiv(DInt(nail.width.pixels), pixelsPerMm),
                 DDiv(DInt(nail.width.pixels), pixelsPerMm), confidence)

\* curvedMm = chordMm * CURVATURE_MULTIPLIER.
curved(nail, chordMm, confidence) ==
    measuredNail(nail, chordMm, DMul(chordMm, Decimal(CURVATURE_MULTIPLIER, 100)),
                 confidence)

\* The body of the map in measureNails (detection.js), for one nail:
\* chordMm = nail.width.pixels / pixelsPerMm.
Det_measureNail(nail, pixelsPerMm, confidence) ==
    curved(nail, DDiv(DInt(nail.width.pixels), pixelsPerMm), confidence)

\* measureNails(handData, referenceData) of detection.js: no validation,
\* one record per nail.
Det_measureNails(hand, reference) ==
    [ op |-> "measureNails", ok |-> TRUE, error |-> "",
      records |-> [i \in 1..Len(hand.nails) |->
                      Det_measureNail(hand.nails[i], reference.pixelsPerMm,
                                      hand.confidence)] ]

\* The record calculateNailSizes builds from widthMm; confidence is
\* handData.confidence || 0.8, in percent.
sizedNail(nail, widthMm, confidence) ==
    [ finger     |-> nail.finger,
      mm         |-> roundedTenths(widthMm),
      size       |-> Meas_mmToSizeNumber(widthMm),
      confidence |-> IF confidence # 0 THEN confidence ELSE 80 ]

\* The body of the map in calculateNailSizes, for one nail:
\* widthMm = nail.width.pixels / pixelsPerMm.
Meas_calculateNailSize(nail, pixelsPerMm, confidence) ==
    sizedNail(nail, DDiv(DInt(nail.width.pixels), pixelsPerMm), confidence)

\* calculateNailSizes(handData, referenceData) of src/measurements.js: throws
\* on missing input and on a scale outside [2, 50].
Meas_calculateNailSizes(hand, reference) ==
    IF hand = None \/ reference = None
    THEN [op |-> "calculateNailSizes", ok |-> FALSE, error |-> "Invalid input",
          records |-> <<>>]
    ELSE IF ~isValidScale(reference.pixelsPerMm)
    THEN [op |-> "calculateNailSizes", ok |-> FALSE, error |-> "Invalid scale",
          records |-> <<>>]
    ELSE [op |-> "calculateNailSizes", ok |-> TRUE, error |-> "",
          records |-> [i \in 1..Len(hand.nails) |->
                          Meas_calculateNailSize(hand.nails[i], reference.pixelsPerMm,
                                                 hand.confidence)]]

\* Inputs: widths of the best card rectangle (pixels), radii of the first
\* circle findCircles reports at (50, 50) (30 in a bright photo, 50 when
\* only the ring of radius 50 is bright), the pixel widths the boundary
\* detection measured (0 = failed), the hand confidence (percent). A nail
\* of 33 px under a card of 176 px is 16.05 mm wide in exact arithmetic and
\* 16.049999999999997 in the code's.
CardWidths == {86, 176, 428, 1000, 4300}
QuarterRadii == {30, 50}
NailPixels == {0, 33, 75}
HandConfidences == {0, 90}

InitMeasure ==
    /\ mpc = "capture"
    /\ referenceData = None
    /\ handData = None
    /\ measurements = None
    /\ IdleConvert /\ IdleBoundary /\ IdleCard /\ IdleLock /\ IdlePolygon /\ IdleFlow /\ IdleContours /\ IdleSelect /\ IdleReference /\ IdleCamera /\ IdleSmooth

\* detectReferenceObject resolved: with the credit-card detection, or with
\* the quarter detection it falls back to when the card is missing or its
\* confidence is below 0.7.
DetectReference ==
    /\ mpc = "capture"
    /\ referenceData = None
    /\ \/ \E width \in CardWidths : referenceData' = detectCreditCard(width)
       \/ \E radius \in QuarterRadii : referenceData' = quarterDetection(radius)
    /\ UNCHANGED <<mpc, handData, measurements, varsConvert, varsBoundary, varsCard, varsLock, varsPolygon, varsFlow, varsContours, varsSelect, varsReference, varsCamera, varsSmooth>>

\* detectHandAndNails resolved: five nails, each with the width record
\* calculateNailWidth returned for it.
DetectHand ==
    /\ mpc = "capture"
    /\ handData = None
    /\ \E px \in [1..5 -> NailPixels], c \in HandConfidences :
          handData' =
              [ detected |-> TRUE, confidence |-> c,
                nails |-> [i \in 1..5 |->
                              [ finger |-> fingerNames[i],
                                width |-> IF px[i] = 0 THEN FailedWidth
                                          ELSE SegmentationWidth(px[i]) ]] ]
    /\ UNCHANGED <<mpc, referenceData, measurements, varsConvert, varsBoundary, varsCard, varsLock, varsPolygon, varsFlow, varsContours, varsSelect, varsReference, varsCamera, varsSmooth>>

\* SizeKitDetection.measureNails(handData, referenceData), as called by
\* processMeasurements once both detections succeeded.
MeasureNails ==
    /\ mpc = "capture"
    /\ handData # None /\ referenceData # None
    /\ measurements' = Det_measureNails(handData, referenceData)
    /\ mpc' = "measured"
    /\ UNCHANGED <<referenceData, handData, varsConvert, varsBoundary, varsCard, varsLock, varsPolygon, varsFlow, varsContours, varsSelect, varsReference, varsCamera, varsSmooth>>

\* calculateNailSizes(handData, referenceData), with whatever the caller has.
CalculateNailSizes ==
    /\ mpc = "capture"
    /\ measurements' = Meas_calculateNailSizes(handData, referenceData)
    /\ mpc' = "measured"
    /\ UNCHANGED <<referenceData, handData, varsConvert, varsBoundary, varsCard, varsLock, varsPolygon, varsFlow, varsContours, varsSelect, varsReference, varsCamera, varsSmooth>>

NextMeasure == DetectReference \/ DetectHand \/ MeasureNails \/ CalculateNailSizes
SpecMeasure == InitMeasure /\ [][NextMeasure]_vars

(***************************************************************************)
(* SpecBoundary: calculateNailWidth and detectActualNailBoundary           *)
(* (detection.js) on synthetic images                                      *)
(*                                                                         *)
(* An image is [width, height, bg, rects]: every pixel has the colour bg,  *)
(* overwritten by the rectangles of rects in order. A colour is <<r,g,b>>. *)
(* Landmarks have integer coordinates and the fingertip lies inside the    *)
(* image.                                                                  *)
(***************************************************************************)
sampleRadius == 2
scanLines == 7
scanStep == 2
maxScan == 60
minWidth == 3

Sum3(rgb) == rgb[1] + rgb[2] + rgb[3]

InRect(r, x, y) == r.x0 <= x /\ x <= r.x1 /\ r.y0 <= y /\ y <= r.y1

\* data[(y * width + x) * 4 ..], for a pixel inside the image.
PixelAt(img, x, y) ==
    LET over == {i \in 1..Len(img.rects) : InRect(img.rects[i], x, y)}
    IN  IF over = {} THEN img.bg ELSE img.rects[SetMax(over)].rgb

\* Math.round(center + 10 cos(2 pi i / 20)), Math.round(center + 10 sin(...))
\* for i = 0..19, as offsets from an integer centre.
skinRing ==
    << <<10, 0>>, <<10, 3>>, <<8, 6>>, <<6, 8>>, <<3, 10>>, <<0, 10>>, <<-3, 10>>,
       <<-6, 8>>, <<-8, 6>>, <<-10, 3>>, <<-10, 0>>, <<-10, -3>>, <<-8, -6>>,
       <<-6, -8>>, <<-3, -10>>, <<0, -10>>, <<3, -10>>, <<6, -8>>, <<8, -6>>,
       <<10, -3>> >>

RECURSIVE SumOver(_, _, _)
SumOver(f, S, acc) ==
    IF S = {} THEN acc
    ELSE LET i == SetMin(S) IN SumOver(f, S \ {i}, acc + f[i])

\* The object getSkinTone returns for the sums of the samples it counted:
\* brightness = (sumR / count + sumG / count + sumB / count) / 3.
skinToneOf(count, sumR, sumG, sumB) ==
    IF count = 0 THEN [count |-> 0, brightness |-> NaN]
    ELSE [count |-> count,
          brightness |-> DDiv(DAdd(DAdd(DDiv(DInt(sumR), DInt(count)),
                                        DDiv(DInt(sumG), DInt(count))),
                                   DDiv(DInt(sumB), DInt(count))),
                              DInt(3))]

\* getSkinTone(data, imgWidth, centerX, centerY): the samples whose index
\* falls inside the data array (a sample past the end of a row reads the
\* next row).
getSkinTone(img, centerX, centerY) ==
    LET pix == [i \in 1..Len(skinRing) |->
                   (centerY + skinRing[i][2]) * img.width + centerX + skinRing[i][1]]
        inData == {i \in 1..Len(skinRing) : pix[i] >= 0 /\ pix[i] < img.width * img.height}
        val == [k \in 1..3 |-> [i \in 1..Len(skinRing) |->
                   IF i \in inData
                   THEN PixelAt(img, pix[i] % img.width, pix[i] \div img.width)[k]
                   ELSE 0]]
    IN  skinToneOf(Cardinality(inData), SumOver(val[1], inData, 0),
                   SumOver(val[2], inData, 0), SumOver(val[3], inData, 0))

\* brightness = (data[idx] + data[idx + 1] + data[idx + 2]) / 3 of a pixel
\* whose three channels add up to sum3.
brightnessOf(sum3) == DDiv(DInt(sum3), DInt(3))

\* The brightest pixel of the 5x5 area around the fingertip: the brightness
\* grows with the sum of the channels, and maxBrightness starts at 0.
tipBrightness(img, tipX, tipY) ==
    LET area == {<<tipX + dx, tipY + dy>> :
                    dx \in (0 - sampleRadius)..sampleRadius,
                    dy \in (0 - sampleRadius)..sampleRadius}
        inside == {p \in area : p[1] >= 0 /\ p[1] < img.width
                                /\ p[2] >= 0 /\ p[2] < img.height}
    IN  brightnessOf(SetMax({0} \cup {Sum3(PixelAt(img, p[1], p[2])) : p \in inside}))

\* edgeThreshold = Math.max(tipBrightness * 0.75, skinTone.brightness * 1.02);
\* not a number when the skin tone is not.
edgeThreshold(tip, skin) ==
    DMax(DMul(tip, Decimal(75, 100)),
         IF skin.brightness = NaN THEN NaN
         ELSE DMul(skin.brightness, Decimal(102, 100)))

\* The least r + g + b whose brightness is not below the threshold, from
\* sum3 on. The brightness grows with r + g + b, so that
\* `brightness < edgeThreshold` holds exactly for the pixels whose channels
\* add up to less; no brightness is below a threshold that is not a number.
RECURSIVE firstNotBelow(_, _)
firstNotBelow(sum3, threshold) ==
    IF DLess(brightnessOf(sum3), threshold) THEN firstNotBelow(sum3 + 1, threshold)
    ELSE sum3
edgeCut(threshold) ==
    IF threshold = NaN THEN 0
    ELSE firstNotBelow(MaxOf(0, 3 * DFloor(threshold)), threshold)

\* brightness < edgeThreshold, for thr = edgeCut(edgeThreshold).
belowThreshold(sum3, thr) == sum3 < thr

\* The pixels of row scanY from column lo to column hi that are below the
\* threshold.
belowIn(img, lo, hi, scanY, thr) ==
    {x \in lo..hi : belowThreshold(Sum3(PixelAt(img, x, scanY)), thr)}

leftScan_OffByOne(img, tipX, x, scanY, thr) ==
    IF belowIn(img, MaxOf(0, tipX - maxScan), x, scanY, thr) = {} THEN tipX
    ELSE SetMax(belowIn(img, MaxOf(0, tipX - maxScan), x, scanY, thr))

\* Mutant: the edge is the pixel that fell below the threshold.
leftEdge_OffByOne(img, tipX, scanY, thr) == leftScan_OffByOne(img, tipX, tipX, scanY, thr)

\* for (x = tipX; x >= Math.max(0, tipX - 60); x--), from x on: the loop
\* breaks at the first pixel below the threshold it meets going left, the
\* rightmost of them; the left edge is one pixel back from it, and stays
\* tipX when the loop ends without meeting one.
leftScan(img, tipX, x, scanY, thr) ==
    IF belowIn(img, MaxOf(0, tipX - maxScan), x, scanY, thr) = {} THEN tipX
    ELSE SetMax(belowIn(img, MaxOf(0, tipX - maxScan), x, scanY, thr)) + 1

\* Scan LEFT from the fingertip.
leftEdge(img, tipX, scanY, thr) == leftScan(img, tipX, tipX, scanY, thr)

rightScan_ScanLimit(img, tipX, x, scanY, thr) ==
    IF belowIn(img, x, MinOf(img.width - 1, tipX + maxScan), scanY, thr) = {}
    THEN MaxOf(x, MinOf(img.width - 1, tipX + maxScan) + 1) - 1
    ELSE SetMin(belowIn(img, x, MinOf(img.width - 1, tipX + maxScan), scanY, thr)) - 1

\* Mutant: a scan that meets no edge reports the last pixel it scanned.
rightEdge_ScanLimit(img, tipX, scanY, thr) == rightScan_ScanLimit(img, tipX, tipX, scanY, thr)

\* for (x = tipX; x <= Math.min(imgWidth - 1, tipX + 60); x++), from x on:
\* the loop breaks at the leftmost pixel below the threshold.
rightScan(img, tipX, x, scanY, thr) ==
    IF belowIn(img, x, MinOf(img.width - 1, tipX + maxScan), scanY, thr) = {} THEN tipX
    ELSE SetMin(belowIn(img, x, MinOf(img.width - 1, tipX + maxScan), scanY, thr)) - 1

\* Scan RIGHT from the fingertip.
rightEdge(img, tipX, scanY, thr) == rightScan(img, tipX, tipX, scanY, thr)

\* width = rightEdge - leftEdge + 1 of one scanned row.
rowWidth(img, tipX, scanY, thr) ==
    rightEdge(img, tipX, scanY, thr) - leftEdge(img, tipX, scanY, thr) + 1

\* Mutant: a row replaces the running maximum whenever it is wide enough.
keepWidest_LastRow(width, maxWidth) ==
    IF width > minWidth THEN width ELSE maxWidth

\* if (width > maxWidth && width > 3) maxWidth = width.
keepWidest(width, maxWidth) ==
    IF width > maxWidth /\ width > minWidth THEN width ELSE maxWidth

\* The rows tipY - 14, tipY - 12, ..., tipY + 14, in the order of the loop;
\* rows outside the image are skipped.
RECURSIVE scanRows(_, _, _, _, _, _)
scanRows(img, tipX, tipY, thr, offset, maxWidth) ==
    IF offset > scanLines * scanStep THEN maxWidth
    ELSE LET scanY == tipY + offset
         IN  scanRows(img, tipX, tipY, thr, offset + scanStep,
                      IF scanY < 0 \/ scanY >= img.height THEN maxWidth
                      ELSE keepWidest(rowWidth(img, tipX, scanY, thr), maxWidth))

\* detectActualNailBoundary(imageData, fingertipX, fingertipY, landmarks,
\* tipIndex): the widest row, 0 when no row is wider than 3 pixels.
detectActualNailBoundary(img, tip, baseJoint) ==
    scanRows(img, tip[1], tip[2],
             edgeCut(edgeThreshold(tipBrightness(img, tip[1], tip[2]),
                                   getSkinTone(img, baseJoint[1], baseJoint[2]))),
             0 - scanLines * scanStep, 0)

\* calculateNailWidth(landmarks, tipIndex, imageWidth, imageHeight, imageData).
calculateNailWidth(lm, img) ==
    IF img = None
    THEN [pixels |-> 0, location |-> lm.tip, method |-> "failed",
          error |-> "No image data"]
    ELSE LET actualWidth == detectActualNailBoundary(img, lm.tip, lm.base)
         IN  IF actualWidth > 0
             THEN [pixels |-> actualWidth, location |-> lm.tip,
                   method |-> "segmentation", error |-> ""]
             ELSE [pixels |-> 0, location |-> lm.tip, method |-> "failed",
                   error |-> "Detection failed"]

\* --- synthetic inputs
MaxBandWidth == 62
ImgWidth == 100
BandLeft == 24

Black  == <<0, 0, 0>>
Skin   == <<60, 50, 40>>
Bright == <<200, 180, 170>>
White  == <<255, 255, 255>>
Faint  == <<60, 60, 50>>
Ruddy  == <<90, 60, 50>>

\* One colour everywhere.
UniformImage(w, h, rgb) ==
    [kind |-> "uniform", width |-> w, height |-> h, bg |-> rgb, rects |-> <<>>]

\* A bright vertical band of width w over the whole height (9 rows), on a
\* darker field.
BandImage(w, dark) ==
    [kind |-> "band", width |-> ImgWidth, height |-> 9, bg |-> dark,
     rects |-> << [x0 |-> BandLeft, x1 |-> BandLeft + w - 1,
                   y0 |-> 0, y1 |-> 8, rgb |-> Bright] >>]

\* A bright patch of width w on rows 12..23 of 31, `bulge` pixels wider on
\* both sides on rows 16..19; the fingertip is on row 15.
ShapeImage(w, bulge, dark) ==
    [kind |-> "shape", width |-> ImgWidth, height |-> 31, bg |-> dark,
     rects |-> << [x0 |-> BandLeft, x1 |-> BandLeft + w - 1,
                   y0 |-> 12, y1 |-> 23, rgb |-> Bright],
                  [x0 |-> BandLeft - bulge, x1 |-> BandLeft + w - 1 + bulge,
                   y0 |-> 16, y1 |-> 19, rgb |-> Bright] >>]

\* A faint band of ten pixels on skin with two ruddy pixels on the ring
\* getSkinTone samples around (12, 4): the brightness of the band, 170 / 3,
\* is 1.02 times that of the sampled skin in exact arithmetic.
FaintImage ==
    [kind |-> "faint", width |-> ImgWidth, height |-> 9, bg |-> Skin,
     rects |-> << [x0 |-> BandLeft, x1 |-> BandLeft + 9,
                   y0 |-> 0, y1 |-> 8, rgb |-> Faint],
                  [x0 |-> 2, x1 |-> 2, y0 |-> 4, y1 |-> 4, rgb |-> Ruddy],
                  [x0 |-> 2, x1 |-> 2, y0 |-> 7, y1 |-> 7, rgb |-> Ruddy] >>]

FaintInputs ==
    { [img |-> FaintImage, lm |-> [tip |-> <<x, 4>>, base |-> <<12, 4>>]] :
        x \in BandLeft..(BandLeft + 9) }

BandInputs ==
    { [img |-> BandImage(w, Skin), lm |-> [tip |-> <<x, 4>>, base |-> b]] :
        w \in 1..MaxBandWidth,
        x \in BandLeft..(BandLeft + MaxBandWidth - 1),
        b \in {<<12, 4>>, <<BandLeft + 2, 4>>} }

UniformInputs ==
    { [img |-> UniformImage(ImgWidth, 31, rgb), lm |-> [tip |-> t, base |-> b]] :
        rgb \in {Black, Skin, Bright, White},
        t \in {<<0, 0>>, <<50, 15>>, <<ImgWidth - 1, 30>>},
        b \in {<<12, 15>>, <<50, 15>>, <<95, 28>>} }
    \cup
    { [img |-> UniformImage(3, 3, rgb), lm |-> [tip |-> <<1, 1>>, base |-> <<1, 1>>]] :
        rgb \in {Black, Skin, Bright, White} }

ShapeInputs ==
    { [img |-> ShapeImage(w, bulge, dark), lm |-> [tip |-> <<x, 15>>, base |-> b]] :
        w \in {1, 2, 3, 4, 6}, bulge \in {0, 1, 5}, dark \in {Black, Skin},
        x \in BandLeft..(BandLeft + 5),
        b \in {<<12, 15>>, <<BandLeft + 2, 27>>} }

InitBoundary ==
    /\ bpc = "input"
    /\ \E in \in BandInputs \cup UniformInputs \cup ShapeInputs \cup FaintInputs :
          /\ in.lm.tip[1] >= 0 /\ in.lm.tip[1] < in.img.width
          /\ (in.img.kind = "band" => in.lm.tip[1] <= in.img.rects[1].x1)
          /\ (in.img.kind = "shape" => in.lm.tip[1] <= in.img.rects[1].x1)
          /\ landmarks = in.lm
          /\ imageData \in {in.img, None}
    /\ nailWidth = None
    /\ IdleConvert /\ IdleMeasure /\ IdleCard /\ IdleLock /\ IdlePolygon /\ IdleFlow /\ IdleContours /\ IdleSelect /\ IdleReference /\ IdleCamera /\ IdleSmooth

\* extractNailLocations calls calculateNailWidth for the fingertip.
CalculateNailWidth ==
    /\ bpc = "input"
    /\ nailWidth' = calculateNailWidth(landmarks, imageData)
    /\ bpc' = "done"
    /\ UNCHANGED <<imageData, landmarks, varsConvert, varsMeasure, varsCard, varsLock, varsPolygon, varsFlow, varsContours, varsSelect, varsReference, varsCamera, varsSmooth>>

NextBoundary == CalculateNailWidth
SpecBoundary == InitBoundary /\ [][NextBoundary]_vars

(***************************************************************************)
(* CardDetector (modules/cardDetector.js)                                  *)
(*                                                                         *)
(* A frame is what the contour stage hands to _findCardRectangles: the     *)
(* four-corner polygons of its contours, the image width and the guide     *)
(* region. Lengths, ratios and scores are JavaScript numbers.               *)
(***************************************************************************)
CARD_ASPECT_RATIO == Decimal(1586, 1000)
ASPECT_TOLERANCE == Decimal(30, 100)
MIN_GUIDE_FILL == Decimal(50, 100)
MAX_GUIDE_FILL == Decimal(115, 100)
historyLimit == 5
consistencyPx == 50
smoothWindow == 3

\* Math.sqrt(Math.pow(q.x - p.x, 2) + Math.pow(q.y - p.y, 2))
Distance(p, q) ==
    DSqrt(DInt((q.x - p.x) * (q.x - p.x) + (q.y - p.y) * (q.y - p.y)))

\* _getRectDimensions(corners): the means of the two opposite side lengths.
getRectDimensions(corners) ==
    [width  |-> DDiv(DAdd(Distance(corners[1], corners[2]),
                          Distance(corners[3], corners[4])), DInt(2)),
     height |-> DDiv(DAdd(Distance(corners[2], corners[3]),
                          Distance(corners[4], corners[1])), DInt(2))]

\* dims.width / dims.height: Infinity for a height of 0, NaN for 0 / 0.
aspectRatioOf(dims) ==
    IF ~DIsZero(dims.height) THEN DDiv(dims.width, dims.height)
    ELSE IF DIsZero(dims.width) THEN NaN ELSE Infinity
\* Math.abs(aspectRatio - CARD_ASPECT_RATIO) / CARD_ASPECT_RATIO
aspectErrorOf(aspectRatio) ==
    IF aspectRatio = NaN \/ aspectRatio = Infinity THEN aspectRatio
    ELSE DDiv(DAbs(DSub(aspectRatio, CARD_ASPECT_RATIO)), CARD_ASPECT_RATIO)

\* The rectangle object _findCardRectangles pushes for a polygon.
rectangle(polygon, dims, aspectRatio, guideRegion) ==
    [corners |-> polygon, width |-> dims.width, height |-> dims.height,
     aspectRatio |-> aspectRatio,
     aspectError |-> aspectErrorOf(aspectRatio),
     guideFill |-> IF guideRegion = None THEN None
                   ELSE [value |-> DDiv(dims.width, DInt(guideRegion.width))]]
withDimensions(polygon, dims, guideRegion) ==
    rectangle(polygon, dims, aspectRatioOf(dims), guideRegion)
cardRectangle(polygon, guideRegion) ==
    withDimensions(polygon, getRectDimensions(polygon), guideRegion)

\* sizeRatio < 0.20 || sizeRatio > 0.60
outsideImageShare(sizeRatio) ==
    DLess(sizeRatio, Decimal(20, 100)) \/ DLess(Decimal(60, 100), sizeRatio)
\* The rejections of _findCardRectangles after the corner count: aspect
\* ratio (aspectError > ASPECT_TOLERANCE, false for NaN), and size against
\* the guide (or against the image without a guide).
passesAspectAndSize(rect, width, guideRegion) ==
    /\ rect.aspectError # Infinity
    /\ (rect.aspectError = NaN \/ ~DLess(ASPECT_TOLERANCE, rect.aspectError))
    /\ IF guideRegion # None
       THEN /\ ~DLess(rect.guideFill.value, MIN_GUIDE_FILL)
            /\ ~DLess(MAX_GUIDE_FILL, rect.guideFill.value)
       ELSE ~outsideImageShare(DDiv(rect.width, DInt(width)))
\* The three rejections of _findCardRectangles: corner count, aspect ratio,
\* and size.
survivesFiltering(polygon, width, guideRegion) ==
    /\ Len(polygon) = 4
    /\ passesAspectAndSize(cardRectangle(polygon, guideRegion), width, guideRegion)

\* rectangles.sort((a, b) => b.width - a.width): stable, widest first.
RECURSIVE insertByWidth(_, _)
insertByWidth(sorted, rect) ==
    IF sorted = <<>> THEN <<rect>>
    ELSE IF DLess(Head(sorted).width, rect.width) THEN <<rect>> \o sorted
    ELSE <<Head(sorted)>> \o insertByWidth(Tail(sorted), rect)

RECURSIVE sortByWidth(_, _)
sortByWidth(rects, sorted) ==
    IF rects = <<>> THEN sorted
    ELSE sortByWidth(Tail(rects), insertByWidth(sorted, Head(rects)))

\* _findCardRectangles(contours, width, height, guideRegion), from the
\* polygons of the contours on.
pushIfPasses(acc, rect, width, guideRegion) ==
    IF passesAspectAndSize(rect, width, guideRegion) THEN Append(acc, rect) ELSE acc
RECURSIVE findCardRectangles(_, _, _, _)
findCardRectangles(polygons, width, guideRegion, acc) ==
    IF polygons = <<>> THEN sortByWidth(acc, <<>>)
    ELSE findCardRectangles(Tail(polygons), width, guideRegion,
             IF Len(Head(polygons)) # 4 THEN acc
             ELSE pushIfPasses(acc, cardRectangle(Head(polygons), guideRegion),
                               width, guideRegion))

\* The score of one rectangle in _selectBestCandidate:
\* absoluteSizeScore * 0.5 + aspectScore * 0.3 + guideFillScore * 0.2.
sizeWeight == Decimal(5, 10)
aspectWeight == Decimal(3, 10)
guideFillWeight == Decimal(2, 10)
targetFill == Decimal(85, 100)
\* 1.0 unless "guideRegion && rect.guideFill", which a fill of 0 fails
guideFillScore(rect, guideRegion) ==
    IF guideRegion # None /\ rect.guideFill # None /\ ~DIsZero(rect.guideFill.value)
    THEN DMax(DZero, DSub(DInt(1), DMul(DAbs(DSub(rect.guideFill.value, targetFill)),
                                        DInt(2))))
    ELSE DInt(1)
weightedScore(absoluteSizeScore, aspectScore, fillScore) ==
    DAdd(DAdd(DMul(absoluteSizeScore, sizeWeight), DMul(aspectScore, aspectWeight)),
         DMul(fillScore, guideFillWeight))
candidateScore(rect, maxWidth, guideRegion) ==
    weightedScore(DDiv(rect.width, maxWidth), DSub(DInt(1), rect.aspectError),
                  guideFillScore(rect, guideRegion))

\* Math.max(...rectangles.map(r => r.width))
RECURSIVE maxWidthOf(_, _)
maxWidthOf(rects, acc) ==
    IF rects = <<>> THEN acc ELSE maxWidthOf(Tail(rects), DMax(acc, Head(rects).width))

\* _selectBestCandidate with "score >= bestScore": the later candidate wins ties.
RECURSIVE bestOf_LaterWins(_, _, _, _, _)
laterWins(rects, maxWidth, guideRegion, bestScore, bestRect, score) ==
    IF ~DLess(score, bestScore)
    THEN bestOf_LaterWins(Tail(rects), maxWidth, guideRegion, score, Head(rects))
    ELSE bestOf_LaterWins(Tail(rects), maxWidth, guideRegion, bestScore, bestRect)
bestOf_LaterWins(rects, maxWidth, guideRegion, bestScore, bestRect) ==
    IF rects = <<>> THEN bestRect
    ELSE laterWins(rects, maxWidth, guideRegion, bestScore, bestRect,
                   candidateScore(Head(rects), maxWidth, guideRegion))

\* The loop of _selectBestCandidate: "score > bestScore" replaces the best.
RECURSIVE bestOf(_, _, _, _, _)
higherWins(rects, maxWidth, guideRegion, bestScore, bestRect, score) ==
    IF DLess(bestScore, score)
    THEN bestOf(Tail(rects), maxWidth, guideRegion, score, Head(rects))
    ELSE bestOf(Tail(rects), maxWidth, guideRegion, bestScore, bestRect)
bestOf(rects, maxWidth, guideRegion, bestScore, bestRect) ==
    IF rects = <<>> THEN bestRect
    ELSE higherWins(rects, maxWidth, guideRegion, bestScore, bestRect,
                    candidateScore(Head(rects), maxWidth, guideRegion))

\* _selectBestCandidate(rectangles, imageData, guideRegion): null for no
\* rectangle, else the first rectangle of the highest score above 0.
selectBestCandidate(rectangles, guideRegion) ==
    IF rectangles = <<>> THEN None
    ELSE bestOf(rectangles, maxWidthOf(rectangles, Head(rectangles).width),
                guideRegion, DZero, None)

\* _checkConsistency(): no corner of the last two detections moved by more
\* than 50 pixels.
checkConsistency(history) ==
    IF Len(history) < 2 THEN FALSE
    ELSE LET a == history[Len(history) - 1].corners
             b == history[Len(history)].corners
         IN  \A i \in 1..4 :
                 (b[i].x - a[i].x) * (b[i].x - a[i].x) + (b[i].y - a[i].y) * (b[i].y - a[i].y)
                     <= consistencyPx * consistencyPx

\* Mutant: a full history drops the newest detection.
pushHistory_DropNewest(history, detection) ==
    LET pushed == Append(history, detection)
    IN  IF Len(pushed) > historyLimit THEN SubSeq(pushed, 1, historyLimit) ELSE pushed

\* _updateHistory(detection): the history keeps the last five detections.
pushHistory(history, detection) ==
    LET pushed == Append(history, detection)
    IN  IF Len(pushed) > historyLimit THEN Tail(pushed) ELSE pushed

\* The stableFrames counter after _updateHistory left `history`.
updatedStableFrames(history, stable) ==
    IF Len(history) >= 3
    THEN (IF checkConsistency(history) THEN stable + 1 ELSE 0)
    ELSE stable

RECURSIVE sumCorner(_, _, _, _)
sumCorner(history, from, i, acc) ==
    IF from > Len(history) THEN acc
    ELSE sumCorner(history, from + 1, i,
                   [x |-> acc.x + history[from].corners[i].x,
                    y |-> acc.y + history[from].corners[i].y])

\* Mutant: the current corners are left out of the count.
smoothCorners_Miscounted(history, currentCorners) ==
    IF Len(history) = 0 THEN currentCorners
    ELSE LET from == MaxOf(1, Len(history) - smoothWindow + 1)
             count == Len(history) - from + 1
         IN  [i \in 1..4 |->
                 LET sum == sumCorner(history, from, i, currentCorners[i])
                 IN  [x |-> MathRound(sum.x, count), y |-> MathRound(sum.y, count)]]

\* Mutant: the mean runs over the whole history.
smoothCorners_WholeHistory(history, currentCorners) ==
    IF Len(history) = 0 THEN currentCorners
    ELSE LET count == 1 + Len(history)
         IN  [i \in 1..4 |->
                 LET sum == sumCorner(history, 1, i, currentCorners[i])
                 IN  [x |-> MathRound(sum.x, count), y |-> MathRound(sum.y, count)]]

\* _smoothCorners(currentCorners): the rounded mean of the current corners
\* and those of the last three detections of the history.
smoothCorners(history, currentCorners) ==
    IF Len(history) = 0 THEN currentCorners
    ELSE LET from == MaxOf(1, Len(history) - smoothWindow + 1)
             count == 1 + (Len(history) - from + 1)
         IN  [i \in 1..4 |->
                 LET sum == sumCorner(history, from, i, currentCorners[i])
                 IN  [x |-> MathRound(sum.x, count), y |-> MathRound(sum.y, count)]]

\* isStable(): true as soon as there are smoothed corners.
isStable(smoothed) == smoothed # NullCorners

\* --- frames
MaxStableFrames == 3
ImageWidth == 100
GuideWidth == 10

Pt(x, y) == [x |-> x, y |-> y]
\* The polygon of an upright rectangle, clockwise from its top left corner.
Quad(x, y, w, h) == <<Pt(x, y), Pt(x + w, y), Pt(x + w, y + h), Pt(x, y + h)>>
\* A card seen at an angle: its sides are not whole numbers of pixels, and
\* its aspect error, 0.29997, is just inside the tolerance.
Tilted == <<Pt(10, 10), Pt(46, 14), Pt(49, 58), Pt(10, 38)>>
Guide == [width |-> GuideWidth]
Frame(polygons, guideRegion) ==
    [image |-> TRUE, width |-> ImageWidth, polygons |-> polygons, guideRegion |-> guideRegion]

Frames ==
    { Frame(<<>>, Guide),                                      \* no contour
      Frame(<<Quad(20, 20, 10, 10)>>, Guide),                  \* a square
      Frame(<<Quad(20, 20, 3, 2)>>, Guide),                    \* too small for the guide
      Frame(<<<<Pt(20, 20), Pt(31, 20), Pt(20, 27)>>>>, Guide), \* a triangle
      Frame(<<Quad(20, 20, 11, 7)>>, Guide),                   \* a card
      Frame(<<Quad(23, 21, 11, 7)>>, Guide),                   \* the card, moved a little
      Frame(<<Quad(80, 20, 11, 7)>>, Guide),                   \* the card, moved far
      Frame(<<Quad(21, 21, 8, 5), Quad(20, 20, 11, 7)>>, Guide), \* a feature and the outline
      Frame(<<Quad(10, 10, 32, 20)>>, None),                   \* a card, no guide
      Frame(<<Quad(10, 10, 80, 50)>>, None),                   \* too large for the image
      Frame(<<Tilted>>, None),                                 \* a card at an angle
      [image |-> FALSE] }                                      \* no image data

\* Steps 4 and 5 of detectCard, which depend on the frame alone: the
\* rectangles that survive filtering and the candidate picked among them.
frameResult(frame) ==
    IF ~frame.image THEN [threw |-> TRUE]
    ELSE LET rectangles == findCardRectangles(frame.polygons, frame.width,
                                              frame.guideRegion, <<>>)
         IN  [threw |-> FALSE, rectangles |-> rectangles,
              detection |-> selectBestCandidate(rectangles, frame.guideRegion)]

FrameResults == {frameResult(frame) : frame \in Frames}

Init ==
    /\ lastDetection = None
    /\ detectionHistory = <<>>
    /\ stableFrames = 0
    /\ smoothedCorners = NullCorners
    /\ returned = None
    /\ frameCandidates = 0
    /\ IdleConvert /\ IdleMeasure /\ IdleBoundary /\ IdleLock /\ IdlePolygon /\ IdleFlow /\ IdleContours /\ IdleSelect /\ IdleReference /\ IdleCamera /\ IdleSmooth

\* detectCard(imageData, guideRegion): one call on the detector.
DetectCard ==
    /\ stableFrames < MaxStableFrames
    /\ \E result \in FrameResults :
          IF result.threw
          THEN \* _toGrayscale throws, the catch block returns null
               /\ returned' = None
               /\ frameCandidates' = 0 - 1
               /\ UNCHANGED <<lastDetection, detectionHistory, stableFrames, smoothedCorners>>
          ELSE /\ frameCandidates' = Len(result.rectangles)
               /\ IF result.detection # None
                  THEN LET history == pushHistory(detectionHistory, result.detection)
                           smoothed == smoothCorners(history, result.detection.corners)
                       IN  /\ detectionHistory' = history
                           /\ stableFrames' = updatedStableFrames(history, stableFrames)
                           /\ smoothedCorners' = smoothed
                           /\ lastDetection' = [result.detection EXCEPT !.corners = smoothed]
                  ELSE /\ detectionHistory' = <<>>
                       /\ stableFrames' = 0
                       /\ smoothedCorners' = NullCorners
                       /\ UNCHANGED lastDetection
               /\ returned' = lastDetection'
    /\ UNCHANGED <<varsConvert, varsMeasure, varsBoundary, varsLock, varsPolygon, varsFlow, varsContours, varsSelect, varsReference, varsCamera, varsSmooth>>

Next == DetectCard
Spec == Init /\ [][Next]_vars

(***************************************************************************)
(* SpecLock: the lock-capable CardDetector (unnamed/part_005, OpenCV)      *)
(*                                                                         *)
(* A frame gives what OpenCV finds in it: the contours of the tracking     *)
(* pass (Canny 20/80) and of the standard pass (Canny 30/100). A contour   *)
(* is its area, its approxPolyDP polygon and the brightness and uniformity *)
(* that _checkBrightness and _checkUniformity measure inside it, given in  *)
(* hundredths. The fields of a region (guide, tracking ROI) are JavaScript *)
(* numbers.                                                                *)
(***************************************************************************)
Cv_ASPECT_TOLERANCE == Decimal(35, 100)
roiPadding == Decimal(3, 10)
emaAlpha == 15

RECURSIVE MinOver(_, _, _)
MinOver(f, i, acc) == IF i > Len(f) THEN acc ELSE MinOver(f, i + 1, MinOf(acc, f[i]))
RECURSIVE MaxOver(_, _, _)
MaxOver(f, i, acc) == IF i > Len(f) THEN acc ELSE MaxOver(f, i + 1, MaxOf(acc, f[i]))

\* Mutant: the region is moved out by the padding but not widened.
trackingRegion_NotWidened(corners) ==
    LET xs == [i \in 1..Len(corners) |-> corners[i].x]
        ys == [i \in 1..Len(corners) |-> corners[i].y]
        minX == MinOver(xs, 2, xs[1])
        maxX == MaxOver(xs, 2, xs[1])
        minY == MinOver(ys, 2, ys[1])
        maxY == MaxOver(ys, 2, ys[1])
        width == DInt(maxX - minX)
        height == DInt(maxY - minY)
    IN  [x |-> DMax(DZero, DSub(DInt(minX), DMul(width, roiPadding))),
         y |-> DMax(DZero, DSub(DInt(minY), DMul(height, roiPadding))),
         width |-> width,
         height |-> height]

\* The padded region around the corners: lock (lines 121-139) and
\* _trackLockedCard (lines 187-204) compute it the same way.
trackingRegion(corners) ==
    LET xs == [i \in 1..Len(corners) |-> corners[i].x]
        ys == [i \in 1..Len(corners) |-> corners[i].y]
        minX == MinOver(xs, 2, xs[1])
        maxX == MaxOver(xs, 2, xs[1])
        minY == MinOver(ys, 2, ys[1])
        maxY == MaxOver(ys, 2, ys[1])
        width == DInt(maxX - minX)
        height == DInt(maxY - minY)
        grow == DAdd(DInt(1), DMul(DInt(2), roiPadding))
    IN  [x |-> DMax(DZero, DSub(DInt(minX), DMul(width, roiPadding))),
         y |-> DMax(DZero, DSub(DInt(minY), DMul(height, roiPadding))),
         width |-> DMul(width, grow),
         height |-> DMul(height, grow)]

hasCorners(detection) ==
    /\ detection # None
    /\ "corners" \in DOMAIN detection
    /\ detection.corners # NullCorners

\* Mutant: lock without its guard.
lockResult_NoGuard(detection, locked, roi) ==
    [isLocked |-> TRUE,
     trackingROI |-> IF hasCorners(detection) THEN trackingRegion(detection.corners)
                     ELSE roi]

\* lock(detection): isLocked and trackingROI after the call.
lockResult(detection, locked, roi) ==
    IF ~hasCorners(detection) THEN [isLocked |-> locked, trackingROI |-> roi]
    ELSE [isLocked |-> TRUE, trackingROI |-> trackingRegion(detection.corners)]

\* Array.prototype.sort of four points by x + y, ascending, stable.
RECURSIVE insertBySum(_, _)
insertBySum(sorted, p) ==
    IF sorted = <<>> THEN <<p>>
    ELSE IF p.x + p.y < Head(sorted).x + Head(sorted).y THEN <<p>> \o sorted
    ELSE <<Head(sorted)>> \o insertBySum(Tail(sorted), p)

RECURSIVE sortBySum(_, _)
sortBySum(points, sorted) ==
    IF points = <<>> THEN sorted
    ELSE sortBySum(Tail(points), insertBySum(sorted, Head(points)))

\* _orderCorners(corners): top-left, top-right, bottom-right, bottom-left.
Cv_orderCorners(corners) ==
    LET sorted == sortBySum(corners, <<>>)
        a == sorted[2]
        b == sorted[3]
        swap == (b.x - b.y) > (a.x - a.y)
    IN  <<sorted[1], IF swap THEN b ELSE a, sorted[4], IF swap THEN a ELSE b>>

\* The minimum contour area of _findCardRectangles.
minAreaOf(image, guideRegion) ==
    IF guideRegion # None
    THEN DMul(DMul(guideRegion.width, guideRegion.height), Decimal(1, 10))
    ELSE DMul(DInt(image.width * image.height), Decimal(2, 100))

\* The rectangle pushed for a contour whose polygon has four corners.
rectangleOf(contour, orderedCorners, width, height) ==
    [corners |-> orderedCorners, width |-> width, height |-> height,
     area |-> contour.area,
     aspectRatio |-> aspectRatioOf([width |-> width, height |-> height]),
     aspectError |-> aspectErrorOf(aspectRatioOf([width |-> width, height |-> height])),
     brightness |-> contour.brightness, uniformity |-> contour.uniformity]
sidesOf(contour, orderedCorners) ==
    rectangleOf(contour, orderedCorners,
                Distance(orderedCorners[1], orderedCorners[2]),
                Distance(orderedCorners[2], orderedCorners[3]))
Cv_cardRectangle(contour) == sidesOf(contour, Cv_orderCorners(contour.approx))

RECURSIVE insertByArea(_, _)
insertByArea(sorted, rect) ==
    IF sorted = <<>> THEN <<rect>>
    ELSE IF rect.area > Head(sorted).area THEN <<rect>> \o sorted
    ELSE <<Head(sorted)>> \o insertByArea(Tail(sorted), rect)

RECURSIVE sortByArea(_, _)
sortByArea(rects, sorted) ==
    IF rects = <<>> THEN sorted
    ELSE sortByArea(Tail(rects), insertByArea(sorted, Head(rects)))

\* _findCardRectangles(contours, imageData, guideRegion): the region only
\* sets the minimum area.
\* One pass of the loop: area, corner count and aspect ratio; rect is the
\* rectangle of the contour, looked at only when it has four corners.
pushIfCard(acc, contour, minArea, rect) ==
    IF /\ ~DLess(DInt(contour.area), minArea)
       /\ Len(contour.approx) = 4
       /\ rect.aspectError # NaN /\ rect.aspectError # Infinity
       /\ ~DLess(Cv_ASPECT_TOLERANCE, rect.aspectError)
    THEN Append(acc, rect) ELSE acc

RECURSIVE Cv_findCardRectangles(_, _, _, _)
Cv_findCardRectangles(contours, image, guideRegion, acc) ==
    IF contours = <<>> THEN sortByArea(acc, <<>>)
    ELSE Cv_findCardRectangles(Tail(contours), image, guideRegion,
             pushIfCard(acc, Head(contours), minAreaOf(image, guideRegion),
                        Cv_cardRectangle(Head(contours))))

\* _isInsideGuide(corners, guide): the centre of the diagonal lies in the guide.
isInsideGuide(corners, guide) ==
    LET centerX == DDiv(DInt(corners[1].x + corners[3].x), DInt(2))
        centerY == DDiv(DInt(corners[1].y + corners[3].y), DInt(2))
    IN  /\ ~DLess(centerX, guide.x)
        /\ ~DLess(DAdd(guide.x, guide.width), centerX)
        /\ ~DLess(centerY, guide.y)
        /\ ~DLess(DAdd(guide.y, guide.height), centerY)

\* The sort key of _selectBestCandidate:
\* brightness * 0.3 + uniformity * 0.4 + (in the guide ? 0.3 : 0).
Cv_candidateScore(rect, guideRegion) ==
    DAdd(DAdd(DMul(rect.brightness, Decimal(3, 10)), DMul(rect.uniformity, Decimal(4, 10))),
         IF guideRegion # None /\ isInsideGuide(rect.corners, guideRegion)
         THEN Decimal(3, 10) ELSE DZero)

RECURSIVE firstBest(_, _, _)
firstBest(rects, guideRegion, best) ==
    IF rects = <<>> THEN best
    ELSE firstBest(Tail(rects), guideRegion,
             IF DLess(Cv_candidateScore(best, guideRegion),
                      Cv_candidateScore(Head(rects), guideRegion))
             THEN Head(rects) ELSE best)

\* _selectBestCandidate(rectangles, guideRegion, imageData).
Cv_selectBestCandidate(rectangles, guideRegion) ==
    IF rectangles = <<>> THEN None
    ELSE LET validCandidates ==
                 SelectSeq(rectangles, LAMBDA r : /\ DLess(Decimal(3, 10), r.brightness)
                                                   /\ DLess(Decimal(6, 10), r.uniformity))
         IN  IF validCandidates = <<>> THEN rectangles[1]
             ELSE firstBest(Tail(validCandidates), guideRegion, Head(validCandidates))

\* --- Math.round(prev * (1 - alpha) + curr * alpha) in IEEE doubles
\* The double 0.15 is 3/20 - 2^-55 / 5 and the double 1 - 0.15 is
\* 17/20 - 2^-53 / 5. What a double falls short of the exact value is
\* counted in units of 2^-62 / 5, in which it is a small integer.
\* binade(num, den) is 10 + floor(log2(num / den)) for num / den >= 2^-10:
\* the doubles of that binade are the multiples of 5 * 2^binade units.
RECURSIVE binadeFrom(_, _, _)
binadeFrom(num, den, k) ==
    IF den * 2^(k + 1) <= num * 1024 THEN binadeFrom(num, den, k + 1) ELSE k
binade(num, den) == binadeFrom(num, den, 0)

\* What the double product n * c falls short of n * coef / 20 (negative when
\* it exceeds it), c being the double coef / 20 - drift units. The exact
\* product n * coef / 20 - n * drift is rounded to the nearest multiple of
\* the ulp, a tie to the even multiple. n * coef / 20 is n * coef * 2^60
\* units, and 2^j modulo 5 is 1, 2, 4, 3 for j = 0, 1, 2, 3 modulo 4.
productShortfall(n, coef, drift) ==
    IF n = 0 THEN 0
    ELSE LET k == binade(coef * n, 20)
             ulp == 5 * 2^k
             exact == 2^(k + 1) * ((coef * n * <<1, 2, 4, 3>>[((59 - k) % 4) + 1]) % 5)
             r2 == (exact + 2 * ulp - drift * n) % (2 * ulp)
             r == r2 % ulp
         IN  IF 2 * r < ulp \/ (2 * r = ulp /\ r2 < ulp)
             THEN drift * n + r
             ELSE drift * n + r - ulp

\* Math.round(prev * (1 - alpha) + curr * alpha) for integers prev, curr:
\* the double sum differs from the exact (85 prev + 15 curr) / 100 by less
\* than 10^-12, so Math.round returns the exact rounding unless the exact
\* value is a half n + 0.5. There the double sum reaches n + 0.5, and
\* Math.round returns n + 1, only when the two products together fall
\* short by at most half an ulp of n + 0.5; otherwise it returns n.
emaRounded(prev, curr) ==
    LET exact == (100 - emaAlpha) * prev + emaAlpha * curr
    IN  IF exact % 100 # 50 THEN MathRound(exact, 100)
        ELSE IF 2 * (productShortfall(prev, 17, 512) + productShortfall(curr, 3, 128))
                    <= 5 * 2^binade(exact, 100)
             THEN (exact + 50) \div 100
             ELSE (exact - 50) \div 100

\* _smoothCorners(currentCorners): 85% previous, 15% current, rounded.
Cv_smoothCorners(previous, currentCorners) ==
    IF previous = NullCorners THEN currentCorners
    ELSE [i \in 1..4 |->
             [x |-> emaRounded(previous[i].x, currentCorners[i].x),
              y |-> emaRounded(previous[i].y, currentCorners[i].y)]]

\* _trackLockedCard(guideRegion): the first rectangle of the tracking pass,
\* or lost.
trackedCard(detection, smoothed) ==
    [found |-> TRUE, accepted |-> detection.corners,
     trackingROI |-> trackingRegion(detection.corners),
     smoothedCorners |-> smoothed,
     lastDetection |-> [detection EXCEPT !.corners = smoothed]]
firstRectangle(rectangles, previous) ==
    IF rectangles # <<>>
    THEN trackedCard(rectangles[1], Cv_smoothCorners(previous, rectangles[1].corners))
    ELSE [found |-> FALSE]
trackLockedCard(frame, roi, previous) ==
    firstRectangle(Cv_findCardRectangles(frame.tracked, frame.image, roi, <<>>), previous)

\* The standard detection of detectCard (steps 3 to 8).
smoothedDetection(detection, smoothed) ==
    [smoothedCorners |-> smoothed, lastDetection |-> [detection EXCEPT !.corners = smoothed]]
detectionResult(detection, previous) ==
    IF detection # None
    THEN smoothedDetection(detection, Cv_smoothCorners(previous, detection.corners))
    ELSE [smoothedCorners |-> NullCorners, lastDetection |-> None]
standardDetection(frame, previous) ==
    detectionResult(
        Cv_selectBestCandidate(
            Cv_findCardRectangles(frame.contours, frame.image, frame.guideRegion, <<>>),
            frame.guideRegion),
        previous)

\* Mutant: a lost card stays locked.
stayLockedOutcome(locked, roi, tracking, track, std) ==
    IF track.found
    THEN [isLocked |-> locked, trackingROI |-> track.trackingROI,
          smoothedCorners |-> track.smoothedCorners,
          lastDetection |-> track.lastDetection, returned |-> track.lastDetection,
          tracking |-> TRUE, lost |-> FALSE, accepted |-> track.accepted,
          fullSearch |-> FALSE]
    ELSE [isLocked |-> locked, trackingROI |-> roi,
          smoothedCorners |-> std.smoothedCorners,
          lastDetection |-> std.lastDetection, returned |-> std.lastDetection,
          tracking |-> tracking, lost |-> tracking, accepted |-> NullCorners,
          fullSearch |-> TRUE]
Cv_detectCard_StayLocked(frame, locked, roi, last, previous) ==
    stayLockedOutcome(locked, roi, locked /\ roi # None,
        IF locked /\ roi # None THEN trackLockedCard(frame, roi, previous)
        ELSE [found |-> FALSE],
        standardDetection(frame, previous))

\* detectCard(imageData, guideRegion): the detector's fields after the call,
\* what it returned, and what the call did (tracking attempted, card lost,
\* corners accepted by the tracking, full-frame search run).
\* The outcome of a call given the result of the tracking pass (track) and
\* of the standard detection (std), which is looked at only when the
\* tracking pass found nothing.
detectOutcome(locked, roi, tracking, track, std) ==
    IF track.found
    THEN [isLocked |-> locked, trackingROI |-> track.trackingROI,
          smoothedCorners |-> track.smoothedCorners,
          lastDetection |-> track.lastDetection,
          returned |-> track.lastDetection,
          tracking |-> TRUE, lost |-> FALSE, accepted |-> track.accepted,
          fullSearch |-> FALSE]
    ELSE \* not locked, or unlock() after the card was lost
         [isLocked |-> IF tracking THEN FALSE ELSE locked,
          trackingROI |-> IF tracking THEN None ELSE roi,
          smoothedCorners |-> std.smoothedCorners,
          lastDetection |-> std.lastDetection,
          returned |-> std.lastDetection,
          tracking |-> tracking, lost |-> tracking, accepted |-> NullCorners,
          fullSearch |-> TRUE]
Cv_detectCard(frame, locked, roi, last, previous) ==
    IF ~frame.cv
    THEN [isLocked |-> locked, trackingROI |-> roi, smoothedCorners |-> previous,
          lastDetection |-> last, returned |-> None,
          tracking |-> FALSE, lost |-> FALSE, accepted |-> NullCorners,
          fullSearch |-> FALSE]
    ELSE detectOutcome(locked, roi, locked /\ roi # None,
             IF locked /\ roi # None THEN trackLockedCard(frame, roi, previous)
             ELSE [found |-> FALSE],
             standardDetection(frame, previous))

\* --- frames of the lock-capable detector
MaxLockCalls == 4
CvImageSize == 100

Region(x, y, w, h) ==
    [x |-> DInt(x), y |-> DInt(y), width |-> DInt(w), height |-> DInt(h)]
CvGuide == Region(5, 5, 50, 40)
CvImage == [width |-> CvImageSize, height |-> CvImageSize]

\* The contour of an upright rectangle; approxPolyDP starts the polygon at
\* the corner numbered `first` (0 = top left, clockwise).
RectContour(x, y, w, h, first, brightness, uniformity) ==
    LET q == Quad(x, y, w, h)
    IN  [area |-> w * h,
         approx |-> [i \in 1..4 |-> q[((i - 1 + first) % 4) + 1]],
         brightness |-> Decimal(brightness, 100), uniformity |-> Decimal(uniformity, 100)]

CvFrame(tracked, contours, guideRegion) ==
    [cv |-> TRUE, image |-> CvImage, tracked |-> tracked, contours |-> contours,
     guideRegion |-> guideRegion]

CardA == RectContour(10, 10, 32, 20, 0, 80, 90)
CardNear == RectContour(14, 12, 32, 20, 2, 80, 90)
CardFar == RectContour(60, 60, 32, 20, 0, 80, 90)
CardDim == RectContour(10, 10, 32, 20, 0, 10, 90)
CardEdge == RectContour(2, 3, 32, 20, 0, 80, 90)
Feature == RectContour(12, 40, 24, 15, 1, 40, 70)
Scrap == RectContour(20, 20, 8, 5, 0, 80, 90)
Blob == [area |-> 700, approx |-> <<Pt(10, 10), Pt(40, 10), Pt(25, 40)>>,
         brightness |-> Decimal(80, 100), uniformity |-> Decimal(90, 100)]

CvFrames ==
    { CvFrame(<<>>, <<>>, CvGuide),                     \* nothing in view
      CvFrame(<<CardA>>, <<CardA>>, CvGuide),           \* the card
      CvFrame(<<CardNear>>, <<CardNear>>, None),        \* the card, moved a little
      CvFrame(<<CardFar>>, <<CardFar>>, None),          \* a card elsewhere in the image
      CvFrame(<<>>, <<CardA>>, CvGuide),                \* only the standard pass finds it
      CvFrame(<<Scrap, Blob>>, <<Scrap, Blob>>, None),  \* too small, not a quadrilateral
      CvFrame(<<Feature, CardDim>>, <<Feature, CardDim>>, CvGuide),
      CvFrame(<<CardDim>>, <<CardDim>>, None),
      CvFrame(<<CardEdge>>, <<CardEdge>>, None),        \* the card at the image's corner
      [cv |-> FALSE, image |-> CvImage, tracked |-> <<>>, contours |-> <<>>,
       guideRegion |-> None] }                          \* OpenCV not loaded

InitLock ==
    /\ isLocked = FALSE
    /\ trackingROI = None
    /\ cvLastDetection = None
    /\ cvSmoothedCorners = NullCorners
    /\ lockCall = [name |-> "new"]
    /\ lockCalls = 0
    /\ IdleConvert /\ IdleMeasure /\ IdleBoundary /\ IdleCard /\ IdlePolygon /\ IdleFlow /\ IdleContours /\ IdleSelect /\ IdleReference /\ IdleCamera /\ IdleSmooth

\* detectCard(imageData, guideRegion) on the lock-capable detector.
CvDetectCard ==
    /\ lockCalls < MaxLockCalls
    /\ \E frame \in CvFrames :
          \E r \in {Cv_detectCard(frame, isLocked, trackingROI, cvLastDetection,
                                    cvSmoothedCorners)} :
              /\ isLocked' = r.isLocked
              /\ trackingROI' = r.trackingROI
              /\ cvLastDetection' = r.lastDetection
              /\ cvSmoothedCorners' = r.smoothedCorners
              /\ lockCall' = [name |-> "detectCard", frame |-> frame,
                              wasLocked |-> isLocked, roiAtStart |-> trackingROI,
                              smoothedAtStart |-> cvSmoothedCorners,
                              tracking |-> r.tracking, lost |-> r.lost,
                              accepted |-> r.accepted, fullSearch |-> r.fullSearch,
                              returned |-> r.returned]
    /\ lockCalls' = lockCalls + 1
    /\ UNCHANGED <<varsConvert, varsMeasure, varsBoundary, varsCard, varsPolygon, varsFlow, varsContours, varsSelect, varsReference, varsCamera, varsSmooth>>

\* lock(detection): the caller accepts a detection (the last one returned),
\* or passes null or an object without corners.
Lock ==
    /\ lockCalls < MaxLockCalls
    /\ \E detection \in {None, [width |-> DInt(32)], cvLastDetection} :
          LET r == lockResult(detection, isLocked, trackingROI)
          IN  /\ isLocked' = r.isLocked
              /\ trackingROI' = r.trackingROI
              /\ lockCall' = [name |-> "lock", detection |-> detection,
                              wasLocked |-> isLocked, roiAtStart |-> trackingROI]
    /\ lockCalls' = lockCalls + 1
    /\ UNCHANGED <<cvLastDetection, cvSmoothedCorners,
                   varsConvert, varsMeasure, varsBoundary, varsCard, varsPolygon, varsFlow, varsContours, varsSelect, varsReference, varsCamera, varsSmooth>>

\* unlock().
Unlock ==
    /\ lockCalls < MaxLockCalls
    /\ isLocked' = FALSE
    /\ trackingROI' = None
    /\ lockCall' = [name |-> "unlock", wasLocked |-> isLocked, roiAtStart |-> trackingROI]
    /\ lockCalls' = lockCalls + 1
    /\ UNCHANGED <<cvLastDetection, cvSmoothedCorners,
                   varsConvert, varsMeasure, varsBoundary, varsCard, varsPolygon, varsFlow, varsContours, varsSelect, varsReference, varsCamera, varsSmooth>>

NextLock == CvDetectCard \/ Lock \/ Unlock
SpecLock == InitLock /\ [][NextLock]_vars

(***************************************************************************)
(* SpecPolygon: _approximatePolygon (modules/cardDetector.js)              *)
(*                                                                         *)
(* A contour is a sequence of points with integer coordinates; lengths,    *)
(* distances and the epsilon steps are JavaScript numbers.                 *)
(***************************************************************************)
\* _perimeter(contour): the closed length, last point back to the first.
\* perimeterLoop is the for loop run n more times from the state loop (its
\* variables i, from 1, and perimeter): the segments are added one after
\* the other, the first half of the n passes before the second.
segments(points) ==
    [i \in 1..Len(points) |-> Distance(points[i], points[(i % Len(points)) + 1])]
RECURSIVE perimeterLoop(_, _, _)
perimeterLoop(lengths, loop, n) ==
    IF loop.i > Len(lengths) \/ n = 0 THEN loop
    ELSE IF n = 1
    THEN [i |-> loop.i + 1, perimeter |-> DAdd(loop.perimeter, lengths[loop.i])]
    ELSE perimeterLoop(lengths, perimeterLoop(lengths, loop, n \div 2), n - (n \div 2))
perimeter(points) ==
    perimeterLoop(segments(points), [i |-> 1, perimeter |-> DZero], Len(points)).perimeter

\* Math.pow(a, 2)
DSquare(a) == DMul(a, a)
\* Math.sqrt(Math.pow(point.x - projX, 2) + Math.pow(point.y - projY, 2))
distanceTo(point, projX, projY) ==
    DSqrt(DAdd(DSquare(DSub(DInt(point.x), projX)), DSquare(DSub(DInt(point.y), projY))))
\* t = Math.max(0, Math.min(1, dot / lenSq)), and the projection
\* lineStart + t * (dx, dy); arithmetic on NaN gives NaN
projectedAt(point, lineStart, dx, dy, t) ==
    IF t = NaN THEN NaN
    ELSE distanceTo(point, DAdd(DInt(lineStart.x), DMul(t, DInt(dx))),
                    DAdd(DInt(lineStart.y), DMul(t, DInt(dy))))
alongLine(point, lineStart, dx, dy) ==
    IF dx * dx + dy * dy = 0 THEN Distance(lineStart, point)
    ELSE projectedAt(point, lineStart, dx, dy,
             DMax(DZero, DMin(DInt(1),
                 DDiv(DInt((point.x - lineStart.x) * dx + (point.y - lineStart.y) * dy),
                      DInt(dx * dx + dy * dy)))))
\* _pointToLineDistance(point, lineStart, lineEnd): the distance to the
\* segment, the projection parameter t clamped to [0, 1].
pointToLineDistance(point, lineStart, lineEnd) ==
    alongLine(point, lineStart, lineEnd.x - lineStart.x, lineEnd.y - lineStart.y)

\* The loop of _douglasPeucker run n more times from the state loop (its
\* variables i, from 2, maxDist and maxIdx), the first half of the n passes
\* before the second: a later point replaces an earlier one only when it is
\* strictly farther from the segment first-last.
\* dist of the points between the first and the last
distances(points) ==
    [k \in 1..(Len(points) - 2) |->
        pointToLineDistance(points[k + 1], points[1], points[Len(points)])]
farther(loop, dist) ==
    IF DLess(loop.maxDist, dist)
    THEN [i |-> loop.i + 1, maxDist |-> dist, maxIdx |-> loop.i]
    ELSE [i |-> loop.i + 1, maxDist |-> loop.maxDist, maxIdx |-> loop.maxIdx]
RECURSIVE farthestLoop(_, _, _)
farthestLoop(dists, loop, n) ==
    IF loop.i > Len(dists) + 1 \/ n = 0 THEN loop
    ELSE IF n = 1 THEN farther(loop, dists[loop.i - 1])
    ELSE farthestLoop(dists, farthestLoop(dists, loop, n \div 2), n - (n \div 2))
farthestFrom(points) ==
    farthestLoop(distances(points), [i |-> 2, maxDist |-> DZero, maxIdx |-> 0],
                 Len(points) - 2)

\* _douglasPeucker(points, epsilon): the farthest interior point splits the
\* points when it is farther than epsilon.
RECURSIVE douglasPeucker(_, _)
\* [...left.slice(0, -1), ...right]
joined(left, right) == SubSeq(left, 1, Len(left) - 1) \o right
splitAt(points, epsilon, far) ==
    IF DLess(epsilon, far.maxDist)
    THEN joined(douglasPeucker(SubSeq(points, 1, far.maxIdx), epsilon),
                douglasPeucker(SubSeq(points, far.maxIdx, Len(points)), epsilon))
    ELSE <<points[1], points[Len(points)]>>
douglasPeucker(points, epsilon) ==
    IF Len(points) < 3 THEN points
    ELSE splitAt(points, epsilon, farthestFrom(points))

\* Mutant: the bottom left corner is taken as the leftmost point.
findFourCorners_Leftmost(points) ==
    IF Len(points) < 4 THEN points
    ELSE LET n == Len(points)
             sum(i) == points[i].x + points[i].y
             diff(i) == points[i].x - points[i].y
             topLeft == CHOOSE i \in 1..n :
                            /\ \A j \in 1..n : sum(i) <= sum(j)
                            /\ \A j \in 1..(i - 1) : sum(j) > sum(i)
             topRight == CHOOSE i \in 1..n :
                            /\ \A j \in 1..n : diff(i) >= diff(j)
                            /\ \A j \in 1..(i - 1) : diff(j) < diff(i)
             bottomRight == CHOOSE i \in 1..n :
                            /\ \A j \in 1..n : sum(i) >= sum(j)
                            /\ \A j \in 1..(i - 1) : sum(j) < sum(i)
             leftmost == CHOOSE i \in 1..n :
                            /\ \A j \in 1..n : points[i].x <= points[j].x
                            /\ \A j \in 1..(i - 1) : points[j].x > points[i].x
         IN  <<points[topLeft], points[topRight], points[bottomRight], points[leftmost]>>

\* _findFourCorners(contour): the first point reaching each extreme.
findFourCorners(points) ==
    IF Len(points) < 4 THEN points
    ELSE LET n == Len(points)
             sum(i) == points[i].x + points[i].y
             diff(i) == points[i].x - points[i].y
             topLeft == CHOOSE i \in 1..n :
                            /\ \A j \in 1..n : sum(i) <= sum(j)
                            /\ \A j \in 1..(i - 1) : sum(j) > sum(i)
             topRight == CHOOSE i \in 1..n :
                            /\ \A j \in 1..n : diff(i) >= diff(j)
                            /\ \A j \in 1..(i - 1) : diff(j) < diff(i)
             bottomRight == CHOOSE i \in 1..n :
                            /\ \A j \in 1..n : sum(i) >= sum(j)
                            /\ \A j \in 1..(i - 1) : sum(j) < sum(i)
             bottomLeft == CHOOSE i \in 1..n :
                            /\ \A j \in 1..n : 0 - diff(i) >= 0 - diff(j)
                            /\ \A j \in 1..(i - 1) : 0 - diff(j) < 0 - diff(i)
         IN  <<points[topLeft], points[topRight], points[bottomRight], points[bottomLeft]>>

\* The epsilon steps 0.02 * perimeter to 0.10 * perimeter.
epsilonOf(percent, length) == DMul(Decimal(percent, 100), length)
epsilonValues(length) ==
    << epsilonOf(2, length), epsilonOf(3, length), epsilonOf(4, length),
       epsilonOf(5, length), epsilonOf(6, length), epsilonOf(8, length),
       epsilonOf(10, length) >>

\* The loop of _approximatePolygon from step k on.
RECURSIVE approximateFrom(_, _, _)
approximateFrom(points, epsilons, k) ==
    IF k > Len(epsilons) THEN findFourCorners(points)
    ELSE LET simplified == douglasPeucker(points, epsilons[k])
         IN  IF Len(simplified) = 4 THEN simplified
             ELSE approximateFrom(points, epsilons, k + 1)

\* _approximatePolygon(contour)
approximatePolygon(points) ==
    IF Len(points) < 4 THEN points
    ELSE approximateFrom(points, epsilonValues(perimeter(points)), 1)

\* The contours, the call and the specification follow _traceContour below.

(***************************************************************************)
(* SpecFlow: the two-photo workflow (measurement.js)                       *)
(*                                                                         *)
(* One action per click handler and per continuation of an async handler   *)
(* after an await. A button can be clicked when its screen is the active   *)
(* one and the button is not disabled. An action runs to the end of its    *)
(* task: a promise that is already rejected when it is awaited is handled  *)
(* before any other event, in the same action.                             *)
(*                                                                         *)
(* startCamera() writes "measurementState.cameraStream = await             *)
(* getUserMedia(...)": the state object is taken before the await. A       *)
(* request that was waiting when resetMeasurement() replaced the object    *)
(* stores its stream in the replaced object, so requests are counted       *)
(* apart as stale from then on.                                            *)
(***************************************************************************)
MaxPhotos == 3
MaxCameraRequests == 2
MaxProcessing == 1
MaxLiveStreams == 2

otherFlow == <<varsConvert, varsMeasure, varsBoundary, varsCard, varsLock, varsPolygon, varsContours, varsSelect, varsReference, varsCamera, varsSmooth>>

\* stopCamera() on the streams that run: the tracks of the stream the state
\* refers to are stopped, if it refers to one.
tracksStopped(stream, live) == IF stream THEN live - 1 ELSE live

\* The getUserMedia requests in flight.
noRequests == [primary |-> 0, fallback |-> 0, stalePrimary |-> 0, staleFallback |-> 0]
pending(requests) ==
    requests.primary + requests.fallback + requests.stalePrimary + requests.staleFallback
\* startCamera(): the first getUserMedia is requested for the state object
\* of the moment.
startCamera(requests) == [requests EXCEPT !.primary = @ + 1]
\* resetMeasurement() replaced the state object: what waits now waits for
\* the replaced one.
afterReset(requests) ==
    [primary |-> 0, fallback |-> 0,
     stalePrimary |-> requests.stalePrimary + requests.primary,
     staleFallback |-> requests.staleFallback + requests.fallback]

\* leftHandReferenceData, rightHandReferenceData, leftHandData and
\* rightHandData are null.
noDetectionData ==
    [leftHandReferenceData |-> 0, rightHandReferenceData |-> 0,
     leftHandData |-> 0, rightHandData |-> 0]

InitFlow ==
    /\ screen = "landing"
    /\ currentHand = "left"
    /\ leftHandPhoto = 0 /\ rightHandPhoto = 0
    /\ cameraStream = FALSE /\ liveStreams = 0
    /\ captureBtnDisabled = FALSE /\ beginBtnDisabled = FALSE
    /\ capturePc = "idle" /\ beginPc = "idle"
    /\ cameraRequests = noRequests /\ photoCount = 0 /\ processing = 0
    /\ processRead = <<>> /\ detectionData = noDetectionData
    /\ handposeModel = FALSE
    /\ IdleConvert /\ IdleMeasure /\ IdleBoundary /\ IdleCard /\ IdleLock /\ IdlePolygon /\ IdleContours /\ IdleSelect /\ IdleReference /\ IdleCamera /\ IdleSmooth

\* startBtn
ClickStart ==
    /\ screen = "landing"
    /\ screen' = "instructions"
    /\ UNCHANGED <<currentHand, leftHandPhoto, rightHandPhoto, cameraStream, liveStreams,
                   captureBtnDisabled, beginBtnDisabled, capturePc, beginPc,
                   cameraRequests, photoCount, processing, processRead, detectionData,
                   handposeModel, otherFlow>>

\* backToHomeBtn
ClickBackToHome ==
    /\ screen = "instructions"
    /\ screen' = "landing"
    /\ UNCHANGED <<currentHand, leftHandPhoto, rightHandPhoto, cameraStream, liveStreams,
                   captureBtnDisabled, beginBtnDisabled, capturePc, beginPc,
                   cameraRequests, photoCount, processing, processRead, detectionData,
                   handposeModel, otherFlow>>

\* beginBtn. loadHandposeModel() waits for handpose.load() only while no
\* model is cached: with a cached model the handler runs within the click
\* to the await of startCamera(), and the button is enabled again when the
\* click ends. Without one it runs up to the await of handpose.load().
ClickBegin ==
    /\ screen = "instructions" /\ ~beginBtnDisabled
    /\ IF handposeModel
       THEN /\ pending(cameraRequests) < MaxCameraRequests
            /\ currentHand' = "left"
            /\ screen' = "capture"
            /\ cameraRequests' = startCamera(cameraRequests)
            /\ UNCHANGED <<beginBtnDisabled, beginPc>>
       ELSE /\ beginBtnDisabled' = TRUE
            /\ beginPc' = "loading"
            /\ UNCHANGED <<screen, currentHand, cameraRequests>>
    /\ UNCHANGED <<leftHandPhoto, rightHandPhoto, cameraStream, liveStreams,
                   captureBtnDisabled, capturePc,
                   photoCount, processing, processRead, detectionData,
                   handposeModel, otherFlow>>

\* beginBtn, after the handpose.load() it waited for settled, up to the
\* await of startCamera(). A load that resolved is stored in handposeModel,
\* one that rejected is logged and leaves it as it was.
BeginLoaded ==
    /\ beginPc = "loading"
    /\ pending(cameraRequests) < MaxCameraRequests
    /\ \E resolved \in BOOLEAN : handposeModel' = (handposeModel \/ resolved)
    /\ beginBtnDisabled' = FALSE
    /\ beginPc' = "idle"
    /\ currentHand' = "left"
    /\ screen' = "capture"
    /\ cameraRequests' = startCamera(cameraRequests)
    /\ UNCHANGED <<leftHandPhoto, rightHandPhoto, cameraStream, liveStreams, captureBtnDisabled,
                   capturePc, photoCount, processing, processRead, detectionData,
                   otherFlow>>

\* startCamera(): a getUserMedia resolved, at the first or the fallback
\* attempt. The stream is stored in the state object the request was made
\* for: the state of now, or one that resetMeasurement() replaced since.
CameraStarted ==
    /\ liveStreams < MaxLiveStreams
    /\ \E attempt \in {"primary", "fallback", "stalePrimary", "staleFallback"} :
          /\ cameraRequests[attempt] > 0
          /\ cameraRequests' = [cameraRequests EXCEPT ![attempt] = @ - 1]
          /\ cameraStream' = IF attempt \in {"primary", "fallback"} THEN TRUE
                             ELSE cameraStream
    /\ liveStreams' = liveStreams + 1
    /\ UNCHANGED <<screen, currentHand, leftHandPhoto, rightHandPhoto,
                   captureBtnDisabled, beginBtnDisabled, capturePc, beginPc,
                   photoCount, processing, processRead, detectionData,
                   handposeModel, otherFlow>>

\* startCamera(): the first getUserMedia rejected, the catch block requests
\* the fallback for the state object of the moment.
CameraFallback ==
    /\ \E attempt \in {"primary", "stalePrimary"} :
          /\ cameraRequests[attempt] > 0
          /\ cameraRequests' = [[cameraRequests EXCEPT ![attempt] = @ - 1]
                                    EXCEPT !.fallback = @ + 1]
    /\ UNCHANGED <<screen, currentHand, leftHandPhoto, rightHandPhoto, cameraStream,
                   liveStreams, captureBtnDisabled, beginBtnDisabled, capturePc, beginPc,
                   photoCount, processing, processRead, detectionData,
                   handposeModel, otherFlow>>

\* startCamera(): the fallback rejected too, showError
CameraFailed ==
    /\ \E attempt \in {"fallback", "staleFallback"} :
          /\ cameraRequests[attempt] > 0
          /\ cameraRequests' = [cameraRequests EXCEPT ![attempt] = @ - 1]
    /\ screen' = "error"
    /\ UNCHANGED <<currentHand, leftHandPhoto, rightHandPhoto, cameraStream, liveStreams,
                   captureBtnDisabled, beginBtnDisabled, capturePc, beginPc,
                   photoCount, processing, processRead, detectionData,
                   handposeModel, otherFlow>>

\* captureBtn: handleCapture up to the await of capturePhoto(), which
\* returned its promise
ClickCapture ==
    /\ screen = "capture" /\ ~captureBtnDisabled
    /\ photoCount < MaxPhotos
    /\ captureBtnDisabled' = TRUE
    /\ capturePc' = "capturing"
    /\ UNCHANGED <<screen, currentHand, leftHandPhoto, rightHandPhoto, cameraStream, liveStreams,
                   beginBtnDisabled, beginPc,
                   cameraRequests, photoCount, processing, processRead, detectionData,
                   handposeModel, otherFlow>>

\* handleCapture: the photo is stored under the current hand, up to the
\* await of the 500 ms timer
PhotoCaptured ==
    /\ capturePc = "capturing"
    /\ photoCount' = photoCount + 1
    /\ IF currentHand = "left"
       THEN leftHandPhoto' = photoCount + 1 /\ UNCHANGED rightHandPhoto
       ELSE rightHandPhoto' = photoCount + 1 /\ UNCHANGED leftHandPhoto
    /\ capturePc' = "validating"
    /\ UNCHANGED <<screen, currentHand, cameraStream, liveStreams, captureBtnDisabled,
                   beginBtnDisabled, beginPc,
                   cameraRequests, processing, processRead, detectionData,
                   handposeModel, otherFlow>>

\* captureBtn: handleCapture when capturePhoto() throws. The promise of
\* capturePhoto has no reject, so it throws before it returns, inside the
\* click, and the catch block of handleCapture runs at once: the button is
\* enabled again, showError.
CaptureFailed ==
    /\ screen = "capture" /\ ~captureBtnDisabled
    /\ captureBtnDisabled' = FALSE
    /\ screen' = "error"
    /\ UNCHANGED <<currentHand, leftHandPhoto, rightHandPhoto, cameraStream, liveStreams,
                   beginBtnDisabled, capturePc, beginPc,
                   cameraRequests, photoCount, processing, processRead, detectionData,
                   handposeModel, otherFlow>>

\* handleCapture after the timer: the next step by the current hand.
nextStep(hand) == IF hand = "left" THEN "right" ELSE "process"

\* processMeasurements() calls four detections, one after the other, and
\* reads the photo of each when it calls it: leftHandPhoto for
\* detectReferenceObject (line 224), rightHandPhoto (228), leftHandPhoto for
\* detectHandAndNails (238), rightHandPhoto (242).
photoRead(k, left, right) == IF k \in {1, 3} THEN left ELSE right

\* handleCapture: after the timer, to its end. For the second hand
\* stopCamera() and processMeasurements(), which shows the processing
\* screen and calls detectReferenceObject on the left photo. Both detections
\* set img.src = photo.dataUrl inside the executor of their promise
\* (detection.js, lines 96 and 501): for a null photo the promise is
\* rejected when it is returned, and the catch block of processMeasurements
\* shows the error screen before any other event is handled.
ValidationDone ==
    /\ capturePc = "validating"
    /\ capturePc' = "idle"
    /\ captureBtnDisabled' = FALSE
    /\ IF nextStep(currentHand) = "right"
       THEN /\ currentHand' = "right"
            /\ UNCHANGED <<screen, cameraStream, liveStreams, processing, processRead>>
       ELSE /\ processing < MaxProcessing
            /\ cameraStream' = FALSE
            /\ liveStreams' = tracksStopped(cameraStream, liveStreams)
            /\ processRead' = <<leftHandPhoto>>
            /\ screen' = IF leftHandPhoto = 0 THEN "error" ELSE "processing"
            /\ processing' = IF leftHandPhoto = 0 THEN processing ELSE processing + 1
            /\ UNCHANGED currentHand
    /\ UNCHANGED <<leftHandPhoto, rightHandPhoto, beginBtnDisabled, beginPc,
                   cameraRequests, photoCount, detectionData, handposeModel, otherFlow>>

\* cancelCaptureBtn
ClickCancel ==
    /\ screen = "capture"
    /\ cameraStream' = FALSE
    /\ liveStreams' = tracksStopped(cameraStream, liveStreams)
    /\ screen' = "instructions"
    /\ UNCHANGED <<currentHand, leftHandPhoto, rightHandPhoto,
                   captureBtnDisabled, beginBtnDisabled, capturePc, beginPc,
                   cameraRequests, photoCount, processing, processRead, detectionData,
                   handposeModel, otherFlow>>

\* The detection data after the k-th detection of processMeasurements
\* resolved for the photo it was called on.
detectionStored(data, k, photo) ==
    IF k = 1 THEN [data EXCEPT !.leftHandReferenceData = photo]
    ELSE IF k = 2 THEN [data EXCEPT !.rightHandReferenceData = photo]
    ELSE IF k = 3 THEN [data EXCEPT !.leftHandData = photo]
    ELSE [data EXCEPT !.rightHandData = photo]

\* measureNails(handData, referenceData) of both hands: it reads
\* referenceData.pixelsPerMm and handData.nails, and throws on null.
measurable(data) ==
    /\ data.leftHandData # 0 /\ data.leftHandReferenceData # 0
    /\ data.rightHandData # 0 /\ data.rightHandReferenceData # 0

\* processMeasurements(): the detection it awaits resolved. Its result is
\* stored; after the first three the next photo is read and its detection
\* called (the catch block follows at once when the photo is null), after
\* the fourth the nails are measured and displayResults shows the results,
\* or the catch block the error when measureNails threw. detectHandAndNails
\* resolves with the hands that the handpose model found.
DetectionResolved ==
    /\ processing > 0
    /\ Len(processRead) >= 3 => handposeModel
    /\ detectionData' = detectionStored(detectionData, Len(processRead),
                                        processRead[Len(processRead)])
    /\ IF Len(processRead) < 4
       THEN LET photo == photoRead(Len(processRead) + 1, leftHandPhoto, rightHandPhoto)
            IN /\ processRead' = Append(processRead, photo)
               /\ screen' = IF photo = 0 THEN "error" ELSE screen
               /\ processing' = IF photo = 0 THEN processing - 1 ELSE processing
       ELSE /\ screen' = IF measurable(detectionData') THEN "results" ELSE "error"
            /\ processing' = processing - 1
            /\ UNCHANGED processRead
    /\ UNCHANGED <<currentHand, leftHandPhoto, rightHandPhoto, cameraStream, liveStreams,
                   captureBtnDisabled, beginBtnDisabled, capturePc, beginPc,
                   cameraRequests, photoCount, handposeModel, otherFlow>>

\* detectHandAndNails, which processMeasurements awaits: the image loaded
\* and the handpose.load() that loadHandposeModel() waited for resolved.
HandposeLoaded ==
    /\ processing > 0 /\ Len(processRead) >= 3
    /\ ~handposeModel
    /\ handposeModel' = TRUE
    /\ UNCHANGED <<screen, currentHand, leftHandPhoto, rightHandPhoto, cameraStream,
                   liveStreams, captureBtnDisabled, beginBtnDisabled, capturePc, beginPc,
                   cameraRequests, photoCount, processing, processRead, detectionData,
                   otherFlow>>

\* processMeasurements(): the detection it awaits rejected, its catch
\* block: showError
DetectionRejected ==
    /\ processing > 0
    /\ processing' = processing - 1
    /\ screen' = "error"
    /\ UNCHANGED <<currentHand, leftHandPhoto, rightHandPhoto, cameraStream, liveStreams,
                   captureBtnDisabled, beginBtnDisabled, capturePc, beginPc,
                   cameraRequests, photoCount, processRead, detectionData,
                   handposeModel, otherFlow>>

\* retakeBtn, up to the await of startCamera()
ClickRetake ==
    /\ screen = "results"
    /\ pending(cameraRequests) < MaxCameraRequests
    /\ currentHand' = "left"
    /\ leftHandPhoto' = 0 /\ rightHandPhoto' = 0
    /\ screen' = "capture"
    /\ cameraRequests' = startCamera(cameraRequests)
    /\ detectionData' = noDetectionData
    /\ UNCHANGED <<cameraStream, liveStreams, captureBtnDisabled, beginBtnDisabled, capturePc,
                   beginPc, photoCount, processing, processRead, handposeModel, otherFlow>>

\* retryBtn and backBtn of the error screen: resetMeasurement(). The state
\* object is replaced (cameraStream null) before stopCamera() looks at it.
ClickRetry ==
    /\ screen = "error"
    /\ currentHand' = "left"
    /\ leftHandPhoto' = 0 /\ rightHandPhoto' = 0
    /\ cameraStream' = FALSE
    /\ UNCHANGED liveStreams
    /\ cameraRequests' = afterReset(cameraRequests)
    /\ screen' = "landing"
    /\ detectionData' = noDetectionData
    /\ UNCHANGED <<captureBtnDisabled, beginBtnDisabled, capturePc, beginPc,
                   photoCount, processing, processRead, handposeModel, otherFlow>>

\* The listener of window 'beforeunload': stopCamera(). The event is
\* dispatched on any screen, and also for a navigation that leaves the
\* page in place (a download, a 204 answer).
BeforeUnload ==
    /\ cameraStream' = FALSE
    /\ liveStreams' = tracksStopped(cameraStream, liveStreams)
    /\ UNCHANGED <<screen, currentHand, leftHandPhoto, rightHandPhoto,
                   captureBtnDisabled, beginBtnDisabled, capturePc, beginPc,
                   cameraRequests, photoCount, processing, processRead, detectionData,
                   handposeModel, otherFlow>>

NextFlow ==
    \/ ClickStart \/ ClickBackToHome \/ ClickBegin \/ BeginLoaded
    \/ CameraStarted \/ CameraFallback \/ CameraFailed
    \/ ClickCapture \/ PhotoCaptured \/ CaptureFailed \/ ValidationDone \/ ClickCancel
    \/ DetectionResolved \/ HandposeLoaded \/ DetectionRejected \/ ClickRetake \/ ClickRetry \/ BeforeUnload
SpecFlow == InitFlow /\ [][NextFlow]_vars

(***************************************************************************)
(* SpecContours: _findContours and _traceContour (modules/cardDetector.js) *)
(*                                                                         *)
(* The edge map is the set of its pixels of value 255. One action per      *)
(* start of a trace, per pixel a trace accepts, per end of a trace, and    *)
(* for the sort and slice at the end. The stack holds the pushed           *)
(* neighbours that were acceptable when pushed: the others are popped and  *)
(* skipped by the loop without any effect.                                 *)
(***************************************************************************)
minContourLength == 200
maxContourPoints == 1000
topContours == 5

otherContours == <<varsConvert, varsMeasure, varsBoundary, varsCard, varsLock,
                   varsPolygon, varsFlow, varsSelect, varsReference, varsCamera, varsSmooth>>

\* The bounds of the scan loops: x in minX..maxX-1, y in minY..maxY-1.
searchBounds(input) ==
    LET g == input.guideRegion
    IN  IF g # None
        THEN [minX |-> MaxOf(1, g.x), minY |-> MaxOf(1, g.y),
              maxX |-> MinOf(input.width - 1, g.x + g.width),
              maxY |-> MinOf(input.height - 1, g.y + g.height)]
        ELSE [minX |-> 1, minY |-> 1,
              maxX |-> input.width - 1, maxY |-> input.height - 1]

inScan(p, b) == b.minX <= p.x /\ p.x < b.maxX /\ b.minY <= p.y /\ p.y < b.maxY

\* The edge pixels the scan can still start a trace from. The pixels the
\* scan has passed are visited or not edges, so the next start is the first
\* of these in row order.
startPixels(input, visited) ==
    {p \in input.edges \ visited : inScan(p, searchBounds(input))}
firstInRows(pixels) ==
    CHOOSE p \in pixels : \A q \in pixels : p.y < q.y \/ (p.y = q.y /\ p.x <= q.x)

\* The tests of _traceContour on a popped entry.
acceptable(p, input, visited) ==
    /\ ~(p.x < 0 \/ p.x >= input.width \/ p.y < 0 \/ p.y >= input.height)
    /\ ~(p \in visited \/ p \notin input.edges)

\* The 8 neighbours in the order they are pushed.
neighbours(p) ==
    <<Pt(p.x - 1, p.y - 1), Pt(p.x, p.y - 1), Pt(p.x + 1, p.y - 1),
      Pt(p.x - 1, p.y), Pt(p.x + 1, p.y),
      Pt(p.x - 1, p.y + 1), Pt(p.x, p.y + 1), Pt(p.x + 1, p.y + 1)>>

\* contours.sort((a, b) => b.length - a.length): stable, longest first.
RECURSIVE insertByLength(_, _)
insertByLength(sorted, c) ==
    IF sorted = <<>> THEN <<c>>
    ELSE IF Len(c) > Len(Head(sorted)) THEN <<c>> \o sorted
    ELSE <<Head(sorted)>> \o insertByLength(Tail(sorted), c)
RECURSIVE sortByLength(_, _)
sortByLength(cs, sorted) ==
    IF cs = <<>> THEN sorted
    ELSE sortByLength(Tail(cs), insertByLength(sorted, Head(cs)))

\* Mutant: the contours are returned in the order they were found.
largestFirst_Unsorted(cs) == SubSeq(cs, 1, MinOf(topContours, Len(cs)))
\* The last two statements of _findContours.
largestFirst(cs) == SubSeq(sortByLength(cs, <<>>), 1, MinOf(topContours, Len(cs)))

\* --- edge maps
LongLine == 250
MapWidth == 300
HLine(y, x0, len) == {Pt(x, y) : x \in x0..(x0 + len - 1)}
EdgeMap(edges, width, height, guideRegion) ==
    [edges |-> edges, width |-> width, height |-> height, guideRegion |-> guideRegion]
GuideBox(x, y, w, h) == [x |-> x, y |-> y, width |-> w, height |-> h]

EdgeMaps ==
    { EdgeMap(HLine(2, 5, LongLine), MapWidth, 6, None),
      \* a short line and a long one
      EdgeMap(HLine(2, 5, 150) \cup HLine(4, 5, 210), MapWidth, 6, None),
      \* six lines longer than the threshold, the shortest first
      EdgeMap(UNION {HLine(2 * k - 1, 5, minContourLength + k) : k \in 1..6},
              MapWidth, 14, None),
      \* one line longer than the point budget of a trace
      EdgeMap(HLine(2, 1, 5 * LongLine), 5 * MapWidth, 6, None),
      \* a line from the image border on
      EdgeMap(HLine(1, 0, LongLine), MapWidth, 6, None),
      \* a guide region and a line that starts in it and leaves it
      EdgeMap(HLine(2, 20, LongLine), MapWidth, 6, GuideBox(10, 1, 50, 4)),
      \* a guide region and a line outside it
      EdgeMap(HLine(2, 100, LongLine), MapWidth, 6, GuideBox(10, 1, 50, 4)),
      \* a guide region with the line inside it
      EdgeMap(HLine(2, 20, LongLine), MapWidth, 6, GuideBox(10, 1, 280, 4)) }

InitContours ==
    /\ fcPc = "scan"
    /\ fcInput \in EdgeMaps
    /\ fcVisited = {}
    /\ fcContours = <<>>
    /\ fcStack = <<>>
    /\ fcContour = <<>>
    /\ fcReturned = <<>>
    /\ IdleConvert /\ IdleMeasure /\ IdleBoundary /\ IdleCard /\ IdleLock /\ IdlePolygon /\ IdleFlow /\ IdleSelect /\ IdleReference /\ IdleCamera /\ IdleSmooth

\* The scan reaches an unvisited edge pixel: _traceContour is called.
ScanStart ==
    /\ fcPc = "scan"
    /\ \E pixels \in {startPixels(fcInput, fcVisited)} :
          /\ pixels # {}
          /\ fcStack' = <<firstInRows(pixels)>>
    /\ fcContour' = <<>>
    /\ fcPc' = "trace"
    /\ UNCHANGED <<fcInput, fcVisited, fcContours, fcReturned, otherContours>>

\* One pass of the loop of _traceContour that accepts a pixel: the entries
\* above it on the stack are popped and skipped.
TraceStep ==
    /\ fcPc = "trace"
    /\ Len(fcContour) < maxContourPoints
    /\ \E i \in 1..Len(fcStack) :
          /\ fcStack[i] \notin fcVisited
          /\ \A j \in (i + 1)..Len(fcStack) : fcStack[j] \in fcVisited
          /\ fcVisited' = fcVisited \cup {fcStack[i]}
          /\ fcContour' = Append(fcContour, fcStack[i])
          /\ fcStack' = SubSeq(fcStack, 1, i - 1)
                 \o SelectSeq(neighbours(fcStack[i]),
                        LAMBDA q : acceptable(q, fcInput, fcVisited \cup {fcStack[i]}))
    /\ UNCHANGED <<fcPc, fcInput, fcContours, fcReturned, otherContours>>

\* The loop of _traceContour ends, the stack emptied or the contour full;
\* _findContours keeps the contour when it is long enough.
TraceEnd ==
    /\ fcPc = "trace"
    /\ \/ Len(fcContour) >= maxContourPoints
       \/ \A i \in 1..Len(fcStack) : fcStack[i] \in fcVisited
    /\ fcContours' = IF Len(fcContour) > minContourLength
                     THEN Append(fcContours, fcContour) ELSE fcContours
    /\ fcStack' = <<>>
    /\ fcContour' = <<>>
    /\ fcPc' = "scan"
    /\ UNCHANGED <<fcInput, fcVisited, fcReturned, otherContours>>

\* The scan ends: sort and slice.
ScanEnd ==
    /\ fcPc = "scan"
    /\ startPixels(fcInput, fcVisited) = {}
    /\ fcReturned' = largestFirst(fcContours)
    /\ fcPc' = "done"
    /\ UNCHANGED <<fcInput, fcVisited, fcContours, fcStack, fcContour, otherContours>>

NextContours == ScanStart \/ TraceStep \/ TraceEnd \/ ScanEnd
SpecContours == InitContours /\ [][NextContours]_vars /\ WF_vars(NextContours)

(***************************************************************************)
(* SpecPolygon, continued: the contours handed to _approximatePolygon      *)
(*                                                                         *)
(* A trace is what _traceContour returns for the outline of an upright     *)
(* rectangle, whole or with pixels missing, started where the scan of      *)
(* _findContours meets it first.                                           *)
(***************************************************************************)
\* _traceContour(edges, visited, startX, startY, width, height) as one
\* value. The stack holds the pushed neighbours that were acceptable when
\* pushed; one pass of the loop pops the entries visited since and accepts
\* the topmost that is not.
RECURSIVE traceLoop(_, _, _, _)
traceAccepting(input, stack, top, visited, contour) ==
    traceLoop(input,
              SubSeq(stack, 1, top - 1)
                  \o SelectSeq(neighbours(stack[top]),
                         LAMBDA q : acceptable(q, input, visited \cup {stack[top]})),
              visited \cup {stack[top]},
              Append(contour, stack[top]))
traceLoop(input, stack, visited, contour) ==
    IF Len(contour) >= maxContourPoints
           \/ \A i \in 1..Len(stack) : stack[i] \in visited
    THEN contour
    ELSE traceAccepting(input, stack,
             SetMax({i \in 1..Len(stack) : stack[i] \notin visited}),
             visited, contour)
traceContour(input, start) ==
    traceLoop(input, SelectSeq(<<start>>, LAMBDA q : acceptable(q, input, {})),
              {}, <<>>)

PolyOrigin == 10
Origins == {PolyOrigin, 2 * PolyOrigin}
Sizes == {<<64, 40>>, <<32, 20>>, <<20, 32>>, <<16, 10>>, <<10, 10>>}

\* The edge pixels of the outline of the upright rectangle at (x, y), w wide
\* and h high, and the inner pixels of its four sides.
Outline(x, y, w, h) ==
    {Pt(i, y) : i \in x..(x + w)} \cup {Pt(i, y + h) : i \in x..(x + w)}
        \cup {Pt(x, j) : j \in y..(y + h)} \cup {Pt(x + w, j) : j \in y..(y + h)}
Missing(x, y, w, h) ==
    { {},                                          \* the whole outline
      {Pt(i, y) : i \in (x + 1)..(x + w - 1)},       \* no top side
      {Pt(x + w, j) : j \in (y + 1)..(y + h - 1)},   \* no right side
      {Pt(i, y + h) : i \in (x + 1)..(x + w - 1)},   \* no bottom side
      {Pt(x, j) : j \in (y + 1)..(y + h - 1)},       \* no left side
      {Pt(x + (w \div 2), y)},                      \* a gap in the top side
      {Pt(x, y + (h \div 2))},                      \* a gap in the left side
      {Pt(x + w, y + h)} }                          \* no bottom right corner

\* The trace of an edge set in an image large enough to hold it.
TraceOf(edges) ==
    traceContour(EdgeMap(edges, 2 * MapWidth, 2 * MapWidth, None), firstInRows(edges))
Traces ==
    UNION {{TraceOf(Outline(x, y, s[1], s[2]) \ m) : m \in Missing(x, y, s[1], s[2])} :
              x \in {PolyOrigin}, y \in {PolyOrigin}, s \in Sizes}

\* Point sequences given to _approximatePolygon directly: the four corners,
\* a kite with sides of length 5, and a triangle.
Kite(x, y) == <<Pt(x + 3, y), Pt(x + 6, y + 4), Pt(x + 3, y + 8), Pt(x, y + 4)>>
Triangle(x, y) == <<Pt(x, y), Pt(x + 8, y), Pt(x, y + 6)>>

Contours ==
    Traces
    \cup {Quad(x, y, s[1], s[2]) : x \in Origins, y \in Origins, s \in Sizes}
    \cup {Kite(x, y) : x \in Origins, y \in Origins}
    \cup {Triangle(x, y) : x \in Origins, y \in Origins}

InitPolygon ==
    /\ ppc = "contour"
    /\ apContour \in Contours
    /\ apPolygon = <<>>
    /\ IdleConvert /\ IdleMeasure /\ IdleBoundary /\ IdleCard /\ IdleLock /\ IdleFlow /\ IdleContours /\ IdleSelect /\ IdleReference /\ IdleCamera /\ IdleSmooth

\* One call of _approximatePolygon(contour).
ApproximatePolygon ==
    /\ ppc = "contour"
    /\ ppc' = "approximated"
    /\ apPolygon' = approximatePolygon(apContour)
    /\ UNCHANGED <<apContour, varsConvert, varsMeasure, varsBoundary, varsCard, varsLock, varsFlow, varsContours, varsSelect, varsReference, varsCamera, varsSmooth>>

NextPolygon == ApproximatePolygon
SpecPolygon == InitPolygon /\ [][NextPolygon]_vars

(***************************************************************************)
(* SpecSelect: _findCardRectangles followed by _selectBestCandidate        *)
(* (modules/cardDetector.js), on up to MaxPolygons polygons with and       *)
(* without a guide region.                                                 *)
(***************************************************************************)
MaxPolygons == 3
otherSelect == <<varsConvert, varsMeasure, varsBoundary, varsCard, varsLock,
                 varsPolygon, varsFlow, varsContours, varsReference, varsCamera, varsSmooth>>

\* The polygons of the contours: cards of the guide's size (two of one size
\* at different places), features inside a card, shapes of the size a frame
\* without a guide accepts, a card at an angle, and a shape no filter
\* accepts.
SelectPolygons ==
    { Quad(20, 20, 11, 7), Quad(40, 20, 11, 7), Quad(21, 21, 8, 5),
      Quad(20, 40, 10, 5), Quad(20, 20, 3, 2),
      Quad(10, 10, 32, 20), Quad(10, 50, 32, 20), Quad(10, 10, 40, 20), Tilted }

RECURSIVE SeqsUpTo(_, _)
SeqsUpTo(S, n) ==
    IF n = 0 THEN {<<>>}
    ELSE SeqsUpTo(S, n - 1) \cup {Append(s, e) : s \in SeqsUpTo(S, n - 1), e \in S}

SelectInputs ==
    {Frame(polygons, guideRegion) :
        polygons \in SeqsUpTo(SelectPolygons, MaxPolygons), guideRegion \in {Guide, None}}

InitSelect ==
    /\ selPc = "filter"
    /\ selInput \in SelectInputs
    /\ selRectangles = <<>>
    /\ selChosen = None
    /\ IdleConvert /\ IdleMeasure /\ IdleBoundary /\ IdleCard /\ IdleLock /\ IdlePolygon /\ IdleFlow /\ IdleContours /\ IdleReference /\ IdleCamera /\ IdleSmooth

\* Step 4 of detectCard: _findCardRectangles(contours, width, height, guideRegion).
FindCardRectangles ==
    /\ selPc = "filter"
    /\ selRectangles' = findCardRectangles(selInput.polygons, selInput.width,
                                           selInput.guideRegion, <<>>)
    /\ selPc' = "select"
    /\ UNCHANGED <<selInput, selChosen, otherSelect>>

\* Step 5 of detectCard: _selectBestCandidate(rectangles, imageData, guideRegion).
SelectBestCandidate ==
    /\ selPc = "select"
    /\ selChosen' = selectBestCandidate(selRectangles, selInput.guideRegion)
    /\ selPc' = "done"
    /\ UNCHANGED <<selInput, selRectangles, otherSelect>>

NextSelect == FindCardRectangles \/ SelectBestCandidate
SpecSelect == InitSelect /\ [][NextSelect]_vars

(***************************************************************************)
(* SpecReference: detectReferenceObject (detection.js) on photos of one    *)
(* grey level. On such a photo the randomly placed samples of              *)
(* getRegionBrightness and getRegionUniformity all read the same value, so *)
(* the detection is a function of the photo. detection.js holds two        *)
(* definitions of detectCreditCard (lines 104 and 895); the photo record   *)
(* says which one is in force.                                             *)
(***************************************************************************)
otherReference == <<varsConvert, varsMeasure, varsBoundary, varsCard, varsLock,
                    varsPolygon, varsFlow, varsContours, varsSelect, varsCamera, varsSmooth>>

targetAspect == Decimal(1586, 1000)
sampleCount == 50
uniformitySamples == 30

\* getRegionBrightness(data, x, y, w, h, imgWidth): sum / count / 255, the
\* fifty samples all reading the grey level.
getRegionBrightness(photo) ==
    DDiv(DDiv(DInt(sampleCount * photo.level), DInt(sampleCount)), DInt(255))
\* getRegionUniformity(...): 1 / (1 + variance / 1000); the mean of the
\* thirty samples is the grey level and the variance 0 / 30.
getRegionUniformity(photo) ==
    DDiv(DInt(1), DAdd(DInt(1), DDiv(DDiv(DZero, DInt(uniformitySamples)), DInt(1000))))

\* for (let w = minCardWidth; w <= maxCardWidth; w += step): the values of
\* w in the order of the loop.
RECURSIVE widthLoop(_, _, _, _)
widthLoop(w, maxCardWidth, step, acc) ==
    IF DLess(maxCardWidth, w) THEN acc
    ELSE widthLoop(DAdd(w, DInt(step)), maxCardWidth, step, Append(acc, w))
\* The regions the three loops of detectCreditCard look at, at x = 0 and
\* y = 0: widths from width * lo up to width * hi, the grid being entered
\* only for an image larger than 100 x 100, and a region that does not fit
\* in the image skipped (x + w > width || y + h > height).
scannedWidths(photo, lo, hi, step) ==
    IF photo.width <= 100 \/ photo.height <= 100 THEN <<>>
    ELSE SelectSeq(widthLoop(DMul(DInt(photo.width), lo), DMul(DInt(photo.width), hi),
                             step, <<>>),
                   LAMBDA w : /\ ~DLess(DInt(photo.width), w)
                              /\ ~DLess(DInt(photo.height), DDiv(w, targetAspect)))

\* The object detectCreditCard returns for the best rectangle: the sides
\* are Math.floor(w) and Math.floor(h), the scale bestRect.width / 85.6.
cardDetection(w, confidence) ==
    [type |-> "creditCard", pixelsPerMm |-> DDiv(DInt(DFloor(w)), Decimal(856, 10)),
     confidence |-> confidence,
     boundingBox |-> [x |-> 0, y |-> 0, width |-> DFloor(w),
                      height |-> DFloor(DDiv(w, targetAspect))]]

\* The filters of detectCreditCard (line 104) on one region.
aspectErrorAt(aspectRatio) ==
    DDiv(DAbs(DSub(aspectRatio, targetAspect)), targetAspect)
passesFilters(brightness, uniformity, w) ==
    /\ ~DLess(brightness, DInt(110))
    /\ ~DLess(uniformity, Decimal(75, 100))
    /\ ~DLess(Decimal(2, 10), aspectErrorAt(DDiv(w, DDiv(w, targetAspect))))
\* score = sizeScore * qualityScore * 100 of a region that passed.
regionScore(brightness, uniformity, w, width) ==
    DMul(DMul(DDiv(w, DInt(width)), DMul(DDiv(brightness, DInt(255)), uniformity)),
         DInt(100))

\* The first region of the highest score above bestScore, scores[k] being
\* the score of the region of width widths[k]; the regions further right
\* and further down have the same widths and scores and come later.
RECURSIVE firstHighest(_, _, _, _)
firstHighest(widths, scores, k, best) ==
    IF k > Len(widths) THEN best
    ELSE firstHighest(widths, scores, k + 1,
             IF DLess(best.score, scores[k]) THEN [w |-> widths[k], score |-> scores[k]]
             ELSE best)

\* detectCreditCard(canvas, ctx) of line 104: the candidates that pass the
\* filters, sorted by score, the sort keeping the order of equal scores.
bestCandidate(best) ==
    IF best = None THEN None
    ELSE cardDetection(best.w, DMin(DDiv(best.score, DInt(100)), Decimal(95, 100)))
firstOfSorted(passed, scores) ==
    IF passed = <<>> THEN None
    ELSE firstHighest(passed, scores, 2, [w |-> passed[1], score |-> scores[1]])
scoredCandidates(passed, brightness, uniformity, width) ==
    bestCandidate(firstOfSorted(passed,
        [k \in 1..Len(passed) |-> regionScore(brightness, uniformity, passed[k], width)]))
Det_detectCreditCard(photo) ==
    scoredCandidates(SelectSeq(scannedWidths(photo, Decimal(18, 100), Decimal(45, 100), 70),
                               LAMBDA w : passesFilters(getRegionBrightness(photo),
                                                        getRegionUniformity(photo), w)),
                     getRegionBrightness(photo), getRegionUniformity(photo), photo.width)

\* detectCreditCard(canvas, ctx) of line 895: no filter, the first region
\* of the highest score = brightness * uniformity * (w / width) above 0.
simplifiedBest(best) ==
    IF best.w = None THEN None
    ELSE cardDetection(best.w, DMin(DMul(best.score, DInt(10)), Decimal(95, 100)))
simplifiedScores(widths, brightness, uniformity, width) ==
    simplifiedBest(firstHighest(widths,
        [k \in 1..Len(widths) |->
            DMul(DMul(brightness, uniformity), DDiv(widths[k], DInt(width)))],
        1, [w |-> None, score |-> DZero]))
Det_detectCreditCard_Simplified(photo) ==
    simplifiedScores(scannedWidths(photo, Decimal(15, 100), Decimal(50, 100), 50),
                     getRegionBrightness(photo), getRegionUniformity(photo), photo.width)

\* findCircles(imageData): isCircle holds at (50, 50) for the radii 30, 40
\* and 50, all sixteen points of each lying in an image larger than
\* 100 x 100, when the brightness there is above 100; slice(0, 3).
findCircles(photo) ==
    IF photo.width > 100 /\ photo.height > 100 /\ photo.level > 100
    THEN <<[x |-> 50, y |-> 50, radius |-> 30], [x |-> 50, y |-> 50, radius |-> 40],
           [x |-> 50, y |-> 50, radius |-> 50]>>
    ELSE <<>>
\* pixelsPerMm = circle.radius * 2 / REFERENCE_OBJECTS.quarter.diameterMm
quarterScale(circle) == DDiv(DInt(circle.radius * 2), Decimal(2426, 100))
\* detectQuarter(canvas, ctx): the first circle of a plausible scale.
RECURSIVE firstQuarter(_)
firstQuarter(circles) ==
    IF circles = <<>> THEN None
    ELSE IF /\ DLess(DInt(2), quarterScale(Head(circles)))
            /\ DLess(quarterScale(Head(circles)), DInt(50))
         THEN [type |-> "quarter",
               pixelsPerMm |-> quarterScale(Head(circles)),
               confidence |-> Decimal(75, 100), boundingBox |-> Head(circles)]
         ELSE firstQuarter(Tail(circles))
detectQuarter(photo) == firstQuarter(findCircles(photo))

\* !detection || detection.confidence < limit
weakerThan(detection, limit) ==
    IF detection = None THEN TRUE ELSE DLess(detection.confidence, limit)

PhotoSizes == {<<100, 100>>, <<130, 130>>, <<400, 300>>, <<640, 480>>, <<1000, 800>>}
GreyLevels == {0, 33, 60, 100, 101, 109, 110, 118, 128, 200, 255}
Photos ==
    {[loads |-> TRUE, width |-> s[1], height |-> s[2], level |-> l, definition |-> d] :
        s \in PhotoSizes, l \in GreyLevels, d \in {104, 895}}
    \cup {[loads |-> FALSE]}

InitReference ==
    /\ refPc = "loading"
    /\ refPhoto \in Photos
    /\ refCard = None
    /\ refDetection = None
    /\ refOutcome = None
    /\ IdleConvert /\ IdleMeasure /\ IdleBoundary /\ IdleCard /\ IdleLock /\ IdlePolygon /\ IdleFlow /\ IdleContours /\ IdleSelect /\ IdleCamera /\ IdleSmooth

\* img.onerror
OnError ==
    /\ refPc = "loading"
    /\ ~refPhoto.loads
    /\ refOutcome' = [rejected |-> "Failed to load image"]
    /\ refPc' = "settled"
    /\ UNCHANGED <<refPhoto, refCard, refDetection, otherReference>>

\* img.onload, up to "await detectCreditCard(canvas, ctx)".
OnLoad ==
    /\ refPc = "loading"
    /\ refPhoto.loads
    /\ refCard' = IF refPhoto.definition = 104 THEN Det_detectCreditCard(refPhoto)
                  ELSE Det_detectCreditCard_Simplified(refPhoto)
    /\ refDetection' = refCard'
    /\ refPc' = "card"
    /\ UNCHANGED <<refPhoto, refOutcome, otherReference>>

\* After the card: not found or confidence below 0.7, on to
\* "await detectQuarter(canvas, ctx)".
TryQuarter ==
    /\ refPc = "card"
    /\ weakerThan(refDetection, Decimal(7, 10))
    /\ refDetection' = detectQuarter(refPhoto)
    /\ refPc' = "quarter"
    /\ UNCHANGED <<refPhoto, refCard, refOutcome, otherReference>>

\* After the card: confidence of 0.7 or more, resolve(detection).
ResolveCard ==
    /\ refPc = "card"
    /\ ~weakerThan(refDetection, Decimal(7, 10))
    /\ IF weakerThan(refDetection, Decimal(6, 10))
       THEN refOutcome' = [rejected |-> "No reference object detected"]
       ELSE refOutcome' = [resolved |-> refDetection]
    /\ refPc' = "settled"
    /\ UNCHANGED <<refPhoto, refCard, refDetection, otherReference>>

\* After the quarter: reject(new Error('No reference object detected...')).
RejectNoReference ==
    /\ refPc = "quarter"
    /\ weakerThan(refDetection, Decimal(6, 10))
    /\ refOutcome' = [rejected |-> "No reference object detected"]
    /\ refPc' = "settled"
    /\ UNCHANGED <<refPhoto, refCard, refDetection, otherReference>>

\* After the quarter: resolve(detection).
ResolveQuarter ==
    /\ refPc = "quarter"
    /\ ~weakerThan(refDetection, Decimal(6, 10))
    /\ refOutcome' = [resolved |-> refDetection]
    /\ refPc' = "settled"
    /\ UNCHANGED <<refPhoto, refCard, refDetection, otherReference>>

NextReference ==
    OnError \/ OnLoad \/ TryQuarter \/ ResolveCard \/ RejectNoReference \/ ResolveQuarter
SpecReference == InitReference /\ [][NextReference]_vars

(***************************************************************************)
(* SpecCamera: the camera screen of camera.js                              *)
(*                                                                         *)
(* One action per click handler, per settlement of getUserMedia and of     *)
(* play(), and for the page becoming hidden.                               *)
(***************************************************************************)
otherCamera == <<varsConvert, varsMeasure, varsBoundary, varsCard, varsLock,
                 varsPolygon, varsFlow, varsContours, varsSelect, varsReference, varsSmooth>>

InitCamera ==
    /\ camSupported \in BOOLEAN
    /\ camScreen = "landing"
    /\ currentStream = FALSE
    /\ cameraActive = FALSE
    /\ camPrimary = 0 /\ camFallback = 0 /\ camPlays = 0
    /\ camLoading = FALSE
    /\ IdleConvert /\ IdleMeasure /\ IdleBoundary /\ IdleCard /\ IdleLock /\ IdlePolygon /\ IdleFlow /\ IdleContours /\ IdleSelect /\ IdleReference /\ IdleSmooth

\* initializeCamera(), up to the await of the first getUserMedia.
initializeCamera ==
    IF ~camSupported
    THEN /\ camScreen' = "error"
         /\ UNCHANGED <<camPrimary, camLoading>>
    ELSE /\ camPrimary + camFallback < MaxCameraRequests
         /\ camScreen' = "camera"
         /\ camPrimary' = camPrimary + 1
         /\ camLoading' = TRUE

\* openCameraBtn
ClickOpenCamera ==
    /\ camScreen = "landing"
    /\ initializeCamera
    /\ UNCHANGED <<camSupported, currentStream, cameraActive, camFallback, camPlays,
                   otherCamera>>

\* retryBtn of the error screen
ClickRetryCamera ==
    /\ camScreen = "error"
    /\ initializeCamera
    /\ UNCHANGED <<camSupported, currentStream, cameraActive, camFallback, camPlays,
                   otherCamera>>

\* backBtn of the error screen
ClickBackCamera ==
    /\ camScreen = "error"
    /\ camScreen' = "landing"
    /\ UNCHANGED <<camSupported, camLoading, currentStream, cameraActive, camPrimary, camFallback,
                   camPlays, otherCamera>>

\* getUserMedia(primaryConstraints) resolved: attachStreamToVideo
PrimaryGranted ==
    /\ camPrimary > 0
    /\ camPlays < MaxCameraRequests
    /\ camPrimary' = camPrimary - 1
    /\ currentStream' = TRUE
    /\ cameraActive' = TRUE
    /\ camPlays' = camPlays + 1
    /\ UNCHANGED <<camSupported, camLoading, camScreen, camFallback, otherCamera>>

\* getUserMedia(primaryConstraints) rejected: the fallback is requested
PrimaryRejected ==
    /\ camPrimary > 0
    /\ camPrimary' = camPrimary - 1
    /\ camFallback' = camFallback + 1
    /\ UNCHANGED <<camSupported, camLoading, camScreen, currentStream, cameraActive, camPlays,
                   otherCamera>>

\* getUserMedia(fallbackConstraints) resolved: attachStreamToVideo
FallbackGranted ==
    /\ camFallback > 0
    /\ camPlays < MaxCameraRequests
    /\ camFallback' = camFallback - 1
    /\ currentStream' = TRUE
    /\ cameraActive' = TRUE
    /\ camPlays' = camPlays + 1
    /\ UNCHANGED <<camSupported, camLoading, camScreen, camPrimary, otherCamera>>

\* getUserMedia(fallbackConstraints) rejected: handleCameraError, that is
\* stopCamera() and showError
FallbackRejected ==
    /\ camFallback > 0
    /\ camFallback' = camFallback - 1
    /\ currentStream' = FALSE
    /\ cameraActive' = FALSE
    /\ camLoading' = FALSE
    /\ camScreen' = "error"
    /\ UNCHANGED <<camSupported, camPrimary, camPlays, otherCamera>>

\* cameraPreview.play() resolved
PlayStarted ==
    /\ camPlays > 0
    /\ camPlays' = camPlays - 1
    /\ UNCHANGED <<camSupported, camLoading, camScreen, currentStream, cameraActive, camPrimary,
                   camFallback, otherCamera>>

\* cameraPreview.play() rejected: showError and stopCamera()
PlayFailed ==
    /\ camPlays > 0
    /\ camPlays' = camPlays - 1
    /\ camScreen' = "error"
    /\ currentStream' = FALSE
    /\ cameraActive' = FALSE
    /\ camLoading' = FALSE
    /\ UNCHANGED <<camSupported, camPrimary, camFallback, otherCamera>>

\* closeCameraBtn: closeCamera(), that is stopCamera() and the landing screen
ClickCloseCamera ==
    /\ camScreen = "camera"
    /\ currentStream' = FALSE
    /\ cameraActive' = FALSE
    /\ camLoading' = FALSE
    /\ camScreen' = "landing"
    /\ UNCHANGED <<camSupported, camPrimary, camFallback, camPlays, otherCamera>>

\* visibilitychange with the page hidden and the camera active: stopCamera()
PageHidden ==
    /\ cameraActive
    /\ currentStream' = FALSE
    /\ cameraActive' = FALSE
    /\ camLoading' = FALSE
    /\ UNCHANGED <<camSupported, camScreen, camPrimary, camFallback, camPlays,
                   otherCamera>>

\* the 'loadedmetadata' listener registered by attachStreamToVideo
MetadataLoaded ==
    /\ currentStream /\ camLoading
    /\ camLoading' = FALSE
    /\ UNCHANGED <<camSupported, camScreen, currentStream, cameraActive, camPrimary,
                   camFallback, camPlays, otherCamera>>

NextCamera ==
    \/ ClickOpenCamera \/ ClickRetryCamera \/ ClickBackCamera
    \/ PrimaryGranted \/ PrimaryRejected \/ FallbackGranted \/ FallbackRejected
    \/ PlayStarted \/ PlayFailed \/ ClickCloseCamera \/ PageHidden \/ MetadataLoaded
SpecCamera == InitCamera /\ [][NextCamera]_vars

(***************************************************************************)
(* SpecSmooth: the smoothing step of detectCard (unnamed/part_005) when    *)
(* every frame detects the card at the same corners. The detector starts   *)
(* with no smoothed corners or with those an earlier detection left, up to *)
(* MaxOffset pixels away in x and in y.                                    *)
(***************************************************************************)
MaxOffset == 9
otherSmooth == <<varsConvert, varsMeasure, varsBoundary, varsCard, varsLock,
                 varsPolygon, varsFlow, varsContours, varsSelect, varsReference,
                 varsCamera>>

SteadyCorners == Quad(40, 40, 32, 20)
Shifted(corners, dx, dy) ==
    [i \in 1..Len(corners) |-> Pt(corners[i].x + dx, corners[i].y + dy)]

InitSmooth ==
    /\ emaDetected = SteadyCorners
    /\ emaSmoothed \in {NullCorners}
           \cup {Shifted(SteadyCorners, dx, dy) :
                    dx \in (0 - MaxOffset)..MaxOffset, dy \in (0 - MaxOffset)..MaxOffset}
    /\ IdleConvert /\ IdleMeasure /\ IdleBoundary /\ IdleCard /\ IdleLock /\ IdlePolygon /\ IdleFlow /\ IdleContours /\ IdleSelect /\ IdleReference /\ IdleCamera

\* detectCard, step 8: this.smoothedCorners = this._smoothCorners(detection.corners)
SmoothDetection ==
    /\ emaSmoothed' = Cv_smoothCorners(emaSmoothed, emaDetected)
    /\ UNCHANGED <<emaDetected, otherSmooth>>

NextSmooth == SmoothDetection
\* Frames keep coming: the step is taken as long as it changes anything.
SpecSmooth == InitSmooth /\ [][NextSmooth]_vars /\ WF_vars(NextSmooth)

(***************************************************************************)
(* Claims on the conversions (SpecConvert)                                 *)
(***************************************************************************)
mmOf(k) == IF k = 1 THEN mm1 ELSE mm2
BandSizes == {nailSizeTable[i].size : i \in 1..Len(nailSizeTable)}
TableTop == SetMax({nailSizeTable[i].maxMm : i \in 1..Len(nailSizeTable)})
TableBottom == SetMin({nailSizeTable[i].minMm : i \in 1..Len(nailSizeTable)})
Covering(t) == {i \in 1..Len(nailSizeTable) :
                   nailSizeTable[i].minMm * 10 <= t /\ t < nailSizeTable[i].maxMm * 10}

\* C5: mmToSizeNumber of measurements.js always returns a size of
\* Config.nailSizeTable: the size of the band [minMm, maxMm) holding mm when
\* there is one (15.5 -> 1, 11.2 -> 5, 15 -> 1), 0 at or above the top of the
\* table and the largest size, 11, below its bottom.
C5_BandLookup ==
    cpc = "converted" =>
        \A k \in {1, 2} :
            LET t == mmOf(k)
                r == conv[k].band
            IN  /\ r \in BandSizes
                /\ \A i \in Covering(t) : r = nailSizeTable[i].size
                /\ (Covering(t) = {} /\ t >= TableTop * 10) => r = 0
                /\ (Covering(t) = {} /\ t < TableBottom * 10) => r = SetMax(BandSizes)
                /\ (Covering(t) = {}) => (t >= TableTop * 10 \/ t < TableBottom * 10)
                /\ (t = 155 => r = 1) /\ (t = 112 => r = 5) /\ (t = 150 => r = 1)

C5_Witness ==
    /\ cpc = "converted"
    /\ mm1 = 155 /\ conv[1].band = 1
    /\ mm2 = 190 /\ conv[2].band = 0

\* C6: both mmToSizeNumber versions are monotonic non-increasing: a larger
\* millimetre value never gets a larger size number.
C6_Monotonic ==
    (cpc = "converted" /\ mm1 <= mm2) =>
        /\ conv[1].det >= conv[2].det
        /\ conv[1].band >= conv[2].band

C6_Witness ==
    /\ cpc = "converted"
    /\ mm1 = 84 /\ mm2 = 180
    /\ conv[1].det = 9 /\ conv[2].det = 0
    /\ conv[1].band = 8 /\ conv[2].band = 0

\* C7: for every entry of a size table, millimetres -> size -> millimetres
\* reproduces the entry: sizeNumberToMm(mmToSizeNumber(entry.mm)) = entry.mm
\* for NAIL_SIZE_TABLE, and for the band table mmToSizeNumber(entry.minMm) =
\* entry.size with sizeNumberToMm(entry.size).min = entry.minMm.
C7_RoundTrip ==
    cpc = "converted" =>
        \A k \in {1, 2} :
            /\ \A i \in 1..Len(NAIL_SIZE_TABLE) :
                   mmOf(k) = NAIL_SIZE_TABLE[i].mm * 10 =>
                       /\ conv[k].det = NAIL_SIZE_TABLE[i].size
                       /\ conv[k].detBack = NAIL_SIZE_TABLE[i].mm
            /\ \A i \in 1..Len(nailSizeTable) :
                   mmOf(k) = nailSizeTable[i].minMm * 10 =>
                       /\ conv[k].band = nailSizeTable[i].size
                       /\ conv[k].bandBack.min = nailSizeTable[i].minMm

C7_Witness ==
    /\ cpc = "converted"
    /\ mm1 = 170 /\ conv[1].det = 0 /\ conv[1].detBack = 17
    /\ mm2 = 50 /\ conv[2].band = 11 /\ conv[2].bandBack.min = 5

(***************************************************************************)
(* Claims on the measurement operations (SpecMeasure)                      *)
(***************************************************************************)
DetSizes == {NAIL_SIZE_TABLE[i].size : i \in 1..Len(NAIL_SIZE_TABLE)}
Measured(op) == mpc = "measured" /\ measurements.op = op /\ measurements.ok

\* C1: a digit whose boundary detection failed (method 'failed', pixels 0)
\* gets no measurement from measureNails: its record carries no ordinal size
\* number and no millimetre width computed from the placeholder 0.
C1_NoMeasurementForFailedDigit ==
    Measured("measureNails") =>
        \A i \in 1..Len(handData.nails) :
            handData.nails[i].width.method = "failed" =>
                /\ measurements.records[i].sizeNumber \notin DetSizes
                /\ measurements.records[i].widthMm \notin Nat

\* C3: no measurement is computed from a scale outside [2, 50] pixels per
\* millimetre: calculateNailSizes and measureNails both reject such a scale.
C3_NoMeasurementFromInvalidScale ==
    (mpc = "measured" /\ measurements.ok) => isValidScale(referenceData.pixelsPerMm)

\* C4: a card 85.6 mm wide detected 428 px wide gives pixelsPerMm = 5.00, and
\* a nail 75 px wide then measures chordMm = 15.0, curvedMm = 15.9 and size 1,
\* the size of the band table's entry covering 15-16 mm.
C4_EndToEndScenario ==
    (/\ Measured("measureNails")
     /\ referenceData.type = "creditCard"
     /\ referenceData.boundingBox.width = 428) =>
        /\ DRound(DMul(referenceData.pixelsPerMm, DInt(100))) = 500
        /\ referenceData.pixelsPerMm = DInt(5)
        /\ \A i \in 1..Len(handData.nails) :
               handData.nails[i].width.pixels = 75 =>
                   /\ measurements.records[i].chordMm = 150
                   /\ measurements.records[i].curvedMm = 159
                   /\ measurements.records[i].widthMm = 159
                   /\ measurements.records[i].sizeNumber = 1
                   /\ \E k \in 1..Len(nailSizeTable) :
                          /\ nailSizeTable[k].minMm = 15 /\ nailSizeTable[k].maxMm = 16
                          /\ nailSizeTable[k].size = measurements.records[i].sizeNumber

C4_Witness ==
    /\ Measured("measureNails")
    /\ referenceData.type = "creditCard"
    /\ referenceData.boundingBox.width = 428
    /\ handData.nails[1].width.pixels = 75
    /\ measurements.records[1].curvedMm = 159
    /\ measurements.records[1].sizeNumber = 1

(***************************************************************************)
(* Claims on the nail boundary detection (SpecBoundary)                    *)
(***************************************************************************)
Scanned == bpc = "done" /\ imageData # None
TipX == landmarks.tip[1]
TipY == landmarks.tip[2]

\* The edge threshold of the current image and landmarks, as the least
\* r + g + b that is not below it.
CurrentThreshold ==
    edgeCut(edgeThreshold(tipBrightness(imageData, TipX, TipY),
                          getSkinTone(imageData, landmarks.base[1], landmarks.base[2])))

\* The rows the scan visits, and the widths wider than the minimum among them.
ScannedRows ==
    {TipY + o * scanStep : o \in (0 - scanLines)..scanLines} \cap 0..(imageData.height - 1)
wideRows(thr) ==
    {w \in {rowWidth(imageData, TipX, y, thr) : y \in ScannedRows} : w > minWidth}
WideRows == wideRows(CurrentThreshold)

\* C8: detectActualNailBoundary returns 0 exactly when no scanned row is wider
\* than 3 pixels and the largest row width otherwise; calculateNailWidth
\* reports the failure as method 'failed' with pixels 0 and an error text, and
\* method 'segmentation' only with the measured width, which is above 3.
reportsWidest(wide, widest) ==
    /\ detectActualNailBoundary(imageData, landmarks.tip, landmarks.base) = widest
    /\ (wide = {}) =>
           /\ nailWidth.method = "failed"
           /\ nailWidth.pixels = 0
           /\ nailWidth.error # ""
    /\ (wide # {}) =>
           /\ nailWidth.method = "segmentation"
           /\ nailWidth.pixels = widest
           /\ nailWidth.pixels > minWidth
reportsWidestOf(wide) == reportsWidest(wide, IF wide = {} THEN 0 ELSE SetMax(wide))
C8_ExplicitFailure ==
    /\ Scanned => reportsWidestOf(WideRows)
    /\ (bpc = "done" /\ imageData = None) =>
          nailWidth.method = "failed" /\ nailWidth.pixels = 0 /\ nailWidth.error # ""

twoWidths(wide) == Cardinality(wide) = 2 /\ nailWidth.pixels = SetMax(wide)
C8_Witness ==
    /\ Scanned
    /\ imageData.kind = "shape"
    /\ nailWidth.method = "segmentation"
    /\ twoWidths(WideRows)

\* The band of a band image, and the premise of C9: the band's pixels are at
\* or above the edge threshold, all others below it, the anchor is in the band.
BandWidth == imageData.rects[1].x1 - imageData.rects[1].x0 + 1
bandAbove(thr) ==
    /\ ~belowThreshold(Sum3(imageData.rects[1].rgb), thr)
    /\ belowThreshold(Sum3(imageData.bg), thr)
BandCase ==
    /\ Scanned
    /\ imageData.kind = "band"
    /\ TipX >= imageData.rects[1].x0 /\ TipX <= imageData.rects[1].x1
    /\ bandAbove(CurrentThreshold)

\* C9 as stated: on a bright band of width W on a darker field the detector
\* returns W, within a small tolerance (3 pixels here), for every anchor
\* position inside the band.
C9_BandWidthAnyWidth ==
    BandCase => Abs(nailWidth.pixels - BandWidth) <= minWidth

\* C9 amended: the detector returns exactly W when W is at least 4 and the
\* anchor lies within 59 pixels of both edges of the band, hence for every
\* anchor inside a band of 4 to 60 pixels; a band of at most 3 pixels is
\* reported as a failure.
C9_BandWidthWithinScan ==
    BandCase =>
        /\ (/\ BandWidth > minWidth
            /\ TipX - imageData.rects[1].x0 < maxScan
            /\ imageData.rects[1].x1 - TipX < maxScan)
               => (nailWidth.method = "segmentation" /\ nailWidth.pixels = BandWidth)
        /\ (BandWidth > minWidth /\ BandWidth <= maxScan)
               => nailWidth.pixels = BandWidth
        /\ BandWidth <= minWidth => nailWidth.method = "failed"

C9_Witness ==
    /\ BandCase
    /\ BandWidth = maxScan
    /\ TipX = imageData.rects[1].x0
    /\ nailWidth.pixels = maxScan

\* C10: on an image whose pixels all have the same brightness, whatever it
\* is, detectActualNailBoundary returns 0 and calculateNailWidth reports
\* method 'failed'.
C10_UniformImageFails ==
    (Scanned /\ imageData.kind = "uniform") =>
        /\ detectActualNailBoundary(imageData, landmarks.tip, landmarks.base) = 0
        /\ nailWidth.method = "failed"
        /\ nailWidth.pixels = 0

C10_Witness ==
    /\ Scanned
    /\ imageData.kind = "uniform"
    /\ imageData.bg = Black
    /\ imageData.width = ImgWidth
    /\ nailWidth.method = "failed"

(***************************************************************************)
(* Claims on the card detector (Spec)                                      *)
(***************************************************************************)
\* C2: a detectCard call whose frame yields no candidate surviving the
\* filtering returns null, also when an earlier call on the same detector
\* returned a detection.
C2_NoCandidateReturnsNull ==
    (frameCandidates = 0) => (returned = None)

(***************************************************************************)
(* Claims on the lock-capable card detector (SpecLock)                     *)
(***************************************************************************)
\* C11: isLocked is false initially and becomes true only inside
\* lock(detection) called with a detection that has corners; no detectCard
\* call sets it, and lock(null) or lock of an object without corners leaves
\* isLocked and trackingROI unchanged.
C11_LockedOnlyByLock ==
    /\ lockCall.name = "new" => (~isLocked /\ trackingROI = None)
    /\ lockCall.name = "detectCard" => (isLocked => lockCall.wasLocked)
    /\ lockCall.name = "unlock" => ~isLocked
    /\ lockCall.name = "lock" =>
          IF hasCorners(lockCall.detection)
          THEN isLocked /\ trackingROI = trackingRegion(lockCall.detection.corners)
          ELSE isLocked = lockCall.wasLocked /\ trackingROI = lockCall.roiAtStart

C11_Witness ==
    /\ lockCall.name = "lock"
    /\ hasCorners(lockCall.detection)
    /\ ~lockCall.wasLocked
    /\ isLocked
    /\ trackingROI # None

\* The tracking pass of the last detectCard call ran and found no rectangle.
TrackingLost ==
    /\ lockCall.name = "detectCard"
    /\ lockCall.frame.cv
    /\ lockCall.wasLocked
    /\ lockCall.roiAtStart # None
    /\ Cv_findCardRectangles(lockCall.frame.tracked, lockCall.frame.image,
                             lockCall.roiAtStart, <<>>) = <<>>

\* C12: a detectCard call made while locked in which the ROI tracking finds
\* no valid candidate ends unlocked (isLocked false, trackingROI null), and
\* the same call runs the full-frame search and returns its result.
C12_LostCardUnlocks ==
    TrackingLost =>
        /\ ~isLocked
        /\ trackingROI = None
        /\ lockCall.fullSearch
        /\ lockCall.returned =
               standardDetection(lockCall.frame, lockCall.smoothedAtStart).lastDetection
        /\ cvLastDetection = lockCall.returned

C12_Witness ==
    /\ TrackingLost
    /\ ~isLocked
    /\ lockCall.returned # None

\* corner (x, y) lies inside the region.
InRegion(corner, region) ==
    /\ ~DLess(DInt(corner.x), region.x)
    /\ ~DLess(DAdd(region.x, region.width), DInt(corner.x))
    /\ ~DLess(DInt(corner.y), region.y)
    /\ ~DLess(DAdd(region.y, region.height), DInt(corner.y))

\* C13: a quadrilateral accepted by _trackLockedCard has all four corners
\* inside the trackingROI in force at the start of the call.
C13_TrackedInsideROI ==
    (lockCall.name = "detectCard" /\ lockCall.accepted # NullCorners) =>
        \A i \in 1..4 : InRegion(lockCall.accepted[i], lockCall.roiAtStart)

(***************************************************************************)
(* Claims on stability, smoothing and history of the card detector (Spec)  *)
(***************************************************************************)
\* C14: isStable() is true only once at least two consecutive detections
\* kept every corner within the pixel distance epsilon (50) of each other:
\* false after a single detection on a new detector, false after a
\* detection whose corners moved more than epsilon from the previous one.
C14_StableNeedsConsecutive ==
    isStable(smoothedCorners) =>
        (Len(detectionHistory) >= 2 /\ checkConsistency(detectionHistory))

\* The corners of the newest entry of the history, and the number of
\* newest entries that have exactly these corners.
NewestCorners == detectionHistory[Len(detectionHistory)].corners
RunLength ==
    LET n == Len(detectionHistory)
        same == {k \in 1..n : \A i \in (n - k + 1)..n :
                                  detectionHistory[i].corners = NewestCorners}
    IN  SetMax(same)

\* C15: after N >= 1 consecutive successful detections with the same corners
\* c, starting from a new detector, the smoothed corners detectCard returns
\* equal c; the exponential smoother returns c for identical input as well.
C15_IdenticalDetectionsUnchanged ==
    (detectionHistory # <<>> /\ RunLength = Len(detectionHistory)) =>
        /\ smoothedCorners = NewestCorners
        /\ lastDetection.corners = NewestCorners
        /\ (returned # None => returned.corners = NewestCorners)
        /\ Cv_smoothCorners(NewestCorners, NewestCorners) = NewestCorners

C15_Witness ==
    /\ Len(detectionHistory) = historyLimit
    /\ RunLength = historyLimit
    /\ returned # None
    /\ returned.corners = NewestCorners

\* C16: after a step change of the detected corners from a to b, the
\* smoothed corners returned equal b once W = 3 consecutive detections at b
\* have been made.
C16_StepConvergesInWindow ==
    (detectionHistory # <<>> /\ RunLength >= smoothWindow) =>
        /\ smoothedCorners = NewestCorners
        /\ lastDetection.corners = NewestCorners

C16_Witness ==
    /\ Len(detectionHistory) > smoothWindow
    /\ RunLength = smoothWindow
    /\ detectionHistory[1].corners # NewestCorners
    /\ smoothedCorners = NewestCorners
    /\ returned # None /\ returned.corners = NewestCorners

\* The detections a frame can yield.
FrameDetections == {r.detection : r \in {q \in FrameResults : ~q.threw}} \ {None}

\* C19: detectionHistory holds at most 5 entries, the most recent accepted
\* detections in arrival order (oldest first), and is empty after any call
\* whose search found no candidate.
C19_BoundedHistory ==
    [][/\ Len(detectionHistory') <= historyLimit
       /\ (frameCandidates' = 0) => (detectionHistory' = <<>>)
       /\ (frameCandidates' > 0) =>
              LET n == Len(detectionHistory')
                  old == Len(detectionHistory)
              IN  /\ n = MinOf(old + 1, historyLimit)
                  /\ detectionHistory'[n] \in FrameDetections
                  /\ lastDetection' =
                         [detectionHistory'[n] EXCEPT !.corners = smoothedCorners']
                  /\ \A i \in 1..(n - 1) :
                         detectionHistory'[i] = detectionHistory[old - (n - 1) + i]]_vars

C19_Witness ==
    /\ Len(detectionHistory) = historyLimit
    /\ detectionHistory[1].corners # detectionHistory[2].corners
    /\ detectionHistory[2].corners # detectionHistory[historyLimit].corners
    /\ frameCandidates > 0

(***************************************************************************)
(* Claims on the polygon approximation (SpecPolygon)                       *)
(***************************************************************************)
\* Corner 0 has the least x+y, corner 2 the greatest x+y, corner 1 the
\* greatest x-y and corner 3 the least x-y.
cornersInOrder(corners) ==
    LET sum(i) == corners[i].x + corners[i].y
        diff(i) == corners[i].x - corners[i].y
    IN  \A j \in 1..4 : /\ sum(1) <= sum(j) /\ sum(3) >= sum(j)
                        /\ diff(2) >= diff(j) /\ diff(4) <= diff(j)

\* The polygon of a contour that _findContours returns (more than 200
\* points) is pushed as a rectangle by _findCardRectangles, in an image
\* twice ImageWidth wide, without a guide region or with one ImageWidth
\* wide.
isCandidate(contour, corners) ==
    /\ Len(contour) > minContourLength
    /\ Len(corners) = 4
    /\ \/ survivesFiltering(corners, 2 * ImageWidth, None)
       \/ survivesFiltering(corners, 2 * ImageWidth, [width |-> ImageWidth])

\* C17: every candidate polygon has exactly 4 corners in the order top left,
\* top right, bottom right, bottom left: corner 0 least x+y, corner 2
\* greatest x+y, corner 1 greatest x-y, corner 3 least x-y.
C17_CornersOrdered ==
    (ppc = "approximated" /\ isCandidate(apContour, apPolygon)) =>
        cornersInOrder(apPolygon)

Range(seq) == {seq[i] : i \in 1..Len(seq)}

\* The first epsilon step, from step k on, at which Douglas-Peucker leaves
\* exactly 4 vertices; 0 when there is none.
RECURSIVE firstFourVertexStep(_, _, _)
firstFourVertexStep(points, epsilons, k) ==
    IF k > Len(epsilons) THEN 0
    ELSE IF Len(douglasPeucker(points, epsilons[k])) = 4 THEN k
    ELSE firstFourVertexStep(points, epsilons, k + 1)
fourVertexStep(points) ==
    firstFourVertexStep(points, epsilonValues(perimeter(points)), 1)

\* C20: for a contour of at least 4 points _approximatePolygon returns
\* exactly 4 points, each a point of the contour: the Douglas-Peucker result
\* of the first epsilon step (2, 3, 4, 5, 6, 8, 10 % of the perimeter) that
\* has exactly 4 vertices, otherwise the extreme points
\* [min x+y, max x-y, max x+y, min x-y].
C20_FourContourPoints ==
    (ppc = "approximated" /\ Len(apContour) >= 4) =>
        LET step == fourVertexStep(apContour)
            sums == {p.x + p.y : p \in Range(apContour)}
            diffs == {p.x - p.y : p \in Range(apContour)}
        IN  /\ Len(apPolygon) = 4
            /\ \A i \in 1..4 : apPolygon[i] \in Range(apContour)
            /\ IF step # 0
               THEN apPolygon = douglasPeucker(apContour,
                        epsilonValues(perimeter(apContour))[step])
               ELSE /\ apPolygon[1].x + apPolygon[1].y = SetMin(sums)
                    /\ apPolygon[2].x - apPolygon[2].y = SetMax(diffs)
                    /\ apPolygon[3].x + apPolygon[3].y = SetMax(sums)
                    /\ apPolygon[4].x - apPolygon[4].y = SetMin(diffs)

C20_Witness ==
    /\ ppc = "approximated"
    /\ Len(apContour) > minContourLength
    /\ apPolygon = Quad(apContour[1].x, apContour[1].y, 64, 40)
    /\ fourVertexStep(apContour) = 0

C20_StepWitness ==
    /\ ppc = "approximated"
    /\ Len(apPolygon) = 4
    /\ fourVertexStep(apContour) > 1

(***************************************************************************)
(* Claims on the two-photo workflow (SpecFlow)                             *)
(***************************************************************************)
\* handleCapture calls processMeasurements() in this step.
processCalled == ValidationDone /\ nextStep(currentHand) = "process"

\* C18: processMeasurements is invoked only when both stored photos are
\* non-null and the left photo was stored before the right one, under every
\* interleaving of begin, capture, cancel, retake and retry/reset events,
\* those that arrive while a capture handler is waiting included.
C18_ProcessNeedsBothPhotos ==
    [][processCalled => /\ leftHandPhoto # 0
                        /\ rightHandPhoto # 0
                        /\ leftHandPhoto < rightHandPhoto]_vars
\* The same for what the call goes on to do: every photo that
\* processMeasurements reads for a detection is non-null.
C18_ProcessReadsPhotos == \A k \in 1..Len(processRead) : processRead[k] # 0

(***************************************************************************)
(* Claims on the contour search (SpecContours)                             *)
(***************************************************************************)
inImage(p, input) == 0 <= p.x /\ p.x < input.width /\ 0 <= p.y /\ p.y < input.height

\* The properties of what _findContours returned.
ContoursWellFormed ==
    fcPc = "done" =>
        /\ Len(fcReturned) <= topContours
        /\ \A i \in 1..Len(fcReturned) :
              /\ Len(fcReturned[i]) > minContourLength
              /\ Len(fcReturned[i]) <= maxContourPoints
              /\ \A p \in Range(fcReturned[i]) : p \in fcInput.edges /\ inImage(p, fcInput)
              /\ Cardinality(Range(fcReturned[i])) = Len(fcReturned[i])
        /\ \A i \in 1..(Len(fcReturned) - 1) : Len(fcReturned[i]) >= Len(fcReturned[i + 1])
        /\ \A i, j \in 1..Len(fcReturned) :
              i # j => Range(fcReturned[i]) \cap Range(fcReturned[j]) = {}

\* C21: for every edge map _findContours terminates and returns at most 5
\* contours, each with more than 200 and at most 1000 points, in
\* non-increasing order of length; every point of a contour is an in-bounds
\* edge pixel and no pixel belongs to two contours.
C21_ContoursBounded == []ContoursWellFormed /\ <>(fcPc = "done")

C21_Witness ==
    /\ fcPc = "done"
    /\ Len(fcReturned) = topContours
    /\ Len(fcContours) > topContours
    /\ Len(fcReturned[1]) > Len(fcReturned[topContours])

\* C22: when a guide region is supplied, every point of every contour
\* returned by _findContours lies within the guide region's bounds.
C22_ContoursInsideGuide ==
    (fcPc = "done" /\ fcInput.guideRegion # None) =>
        \A i \in 1..Len(fcReturned) : \A p \in Range(fcReturned[i]) :
            /\ fcInput.guideRegion.x <= p.x
            /\ p.x <= fcInput.guideRegion.x + fcInput.guideRegion.width
            /\ fcInput.guideRegion.y <= p.y
            /\ p.y <= fcInput.guideRegion.y + fcInput.guideRegion.height

(***************************************************************************)
(* Claims on the choice of the candidate (SpecSelect)                      *)
(***************************************************************************)
widestOf(rects) ==
    CHOOSE w \in {rects[i].width : i \in 1..Len(rects)} :
        \A i \in 1..Len(rects) : ~DLess(w, rects[i].width)
\* 0.5 x relative width + 0.3 x (1 - aspectError) + 0.2 x guide-fill score
scoreOf(rects, i) == candidateScore(rects[i], widestOf(rects), selInput.guideRegion)
chosenAt(rects, selected) == CHOOSE i \in 1..Len(rects) :
    rects[i] = selected /\ \A j \in 1..(i - 1) : rects[j] # selected

\* C23: _selectBestCandidate returns null only for an empty list of
\* candidates; otherwise it returns a candidate of the list whose score is
\* maximal, and every candidate before it in the list scores strictly less.
C23_MaximalScore ==
    selPc = "done" =>
        /\ (selChosen = None) <=> (selRectangles = <<>>)
        /\ selChosen # None =>
              /\ \E i \in 1..Len(selRectangles) : selRectangles[i] = selChosen
              /\ \A i \in 1..Len(selRectangles) :
                     ~DLess(scoreOf(selRectangles, chosenAt(selRectangles, selChosen)),
                            scoreOf(selRectangles, i))
              /\ \A j \in 1..(chosenAt(selRectangles, selChosen) - 1) :
                     DLess(scoreOf(selRectangles, j),
                           scoreOf(selRectangles, chosenAt(selRectangles, selChosen)))
\* Two different candidates tie for the highest score and the earlier one is
\* returned.
C23_Witness ==
    /\ selPc = "done"
    /\ Len(selRectangles) >= 2
    /\ selRectangles[1] # selRectangles[2]
    /\ scoreOf(selRectangles, 1) = scoreOf(selRectangles, 2)
    /\ selChosen = selRectangles[1]
\* A narrower candidate outscores the widest one.
C23_NarrowerWins ==
    /\ selPc = "done"
    /\ Len(selRectangles) >= 2
    /\ selChosen # None
    /\ DLess(selChosen.width, selRectangles[1].width)

(***************************************************************************)
(* Claims on the reference detection (SpecReference)                       *)
(***************************************************************************)
cardScanned == refPc \in {"card", "quarter", "settled"} /\ refPhoto.loads

\* C24: in detectCreditCard (line 104) a scanned region of an average
\* brightness of at least 110 out of 255, uniform and of the card's
\* proportions, passes the filters, so that a detection is returned.
C24_BrightRegionDetected ==
    (/\ cardScanned
     /\ refPhoto.definition = 104
     /\ scannedWidths(refPhoto, Decimal(18, 100), Decimal(45, 100), 70) # <<>>
     /\ refPhoto.level >= 110)
        => refCard # None

\* C25: the promise is rejected with 'No reference object detected' only
\* when detectCreditCard returned no detection of a confidence of 0.6 or
\* more (and detectQuarter none either).
C25_RejectsOnlyWithoutReference ==
    (refPc = "settled" /\ refOutcome = [rejected |-> "No reference object detected"])
        => /\ weakerThan(refCard, Decimal(6, 10))
           /\ weakerThan(detectQuarter(refPhoto), Decimal(6, 10))
\* The order of the attempts: the quarter is tried only after the card.
C25_CardFirst == refPc = "quarter" => cardScanned

(***************************************************************************)
(* Claims on the camera stream of the workflow (SpecFlow)                  *)
(***************************************************************************)
\* C26: whenever the state's reference to the camera stream goes from a
\* stream to null, the tracks of that stream are stopped in the same step:
\* one stream fewer is running afterwards.
C26_NoLiveStreamLost ==
    [][(cameraStream /\ ~cameraStream') => liveStreams' = liveStreams - 1]_vars
\* The same for the uses of stopCamera alone: off the error screen the
\* reference is only dropped together with the tracks.
C26_StopCameraStopsTracks ==
    [][(cameraStream /\ ~cameraStream' /\ screen # "error")
          => liveStreams' = liveStreams - 1]_vars

(***************************************************************************)
(* Claims on the camera screen (SpecCamera) and on cancelling (SpecFlow)   *)
(***************************************************************************)
\* C27: while a screen other than the camera screen is shown, no stream is
\* active: currentStream is null and cameraActive is false.
C27_NoStreamOffCamera ==
    camScreen # "camera" => (~currentStream /\ ~cameraActive)
\* The same in the workflow of measurement.js: off the capture and the
\* error screen the state refers to no stream.
C27_NoStreamAfterCancel ==
    screen \in {"landing", "instructions"} => ~cameraStream

(***************************************************************************)
(* Claims on the reported size and width (SpecMeasure)                     *)
(***************************************************************************)
\* C28: in every record of calculateNailSizes the size is mmToSizeNumber of
\* the reported mm, and in every record of measureNails the sizeNumber is
\* mmToSizeNumber of the reported widthMm (both reported in tenths).
C28_SizeMatchesWidth ==
    (mpc = "measured" /\ measurements.ok) =>
        \A i \in 1..Len(measurements.records) :
            IF measurements.op = "calculateNailSizes"
            THEN measurements.records[i].size
                    = Meas_mmToSizeNumber(tenths(measurements.records[i].mm))
            ELSE measurements.records[i].sizeNumber
                    = Det_mmToSizeNumber(tenths(measurements.records[i].widthMm))
\* The two operations apart.
C28_CalculatedSizeMatches ==
    (mpc = "measured" /\ measurements.ok /\ measurements.op = "calculateNailSizes") =>
        \A i \in 1..Len(measurements.records) :
            measurements.records[i].size
                = Meas_mmToSizeNumber(tenths(measurements.records[i].mm))
C28_MeasuredSizeMatches ==
    (mpc = "measured" /\ measurements.ok /\ measurements.op = "measureNails") =>
        \A i \in 1..Len(measurements.records) :
            measurements.records[i].sizeNumber
                = Det_mmToSizeNumber(tenths(measurements.records[i].widthMm))

(***************************************************************************)
(* Claims on the smoothing under a steady detection (SpecSmooth)           *)
(***************************************************************************)
\* C29: when every detection has the same corners, the smoothed corners
\* eventually equal them.
C29_SmoothedReachesDetection == <>(emaSmoothed = emaDetected)
\* What the smoother does reach: every smoothed coordinate ends within
\* 3 pixels of the detected one and stays there.
C29_SettlesWithinThree ==
    <>[](/\ emaSmoothed # NullCorners
         /\ \A i \in 1..4 : /\ Abs(emaSmoothed[i].x - emaDetected[i].x) <= 3
                            /\ Abs(emaSmoothed[i].y - emaDetected[i].y) <= 3)

\* The corners the trackingROI in force was computed from by the last call,
\* NullCorners when the last call did not compute a region: lock takes the
\* corners of the detection it is given, _trackLockedCard the corners of
\* the first rectangle it found.
regionSource ==
    IF lockCall.name = "lock"
    THEN IF hasCorners(lockCall.detection) THEN lockCall.detection.corners
         ELSE NullCorners
    ELSE IF lockCall.name = "detectCard" THEN lockCall.accepted
    ELSE NullCorners

\* C30: after any sequence of detectCard, lock and unlock calls isLocked is
\* true exactly when trackingROI is non-null, and a locked detector's
\* trackingROI contains every corner it was last computed from; a call
\* that computes no region and does not unlock leaves the region as it was.
C30_LockedIffRegion ==
    /\ isLocked <=> (trackingROI # None)
    /\ (isLocked /\ regionSource # NullCorners) =>
           \A i \in 1..Len(regionSource) : InRegion(regionSource[i], trackingROI)
    /\ (isLocked /\ regionSource = NullCorners) =>
           (lockCall.wasLocked /\ trackingROI = lockCall.roiAtStart)

\* A tracking pass moved the region of a locked detector, and the new
\* region is cut at the image's left or top edge.
C30_Witness ==
    /\ isLocked
    /\ lockCall.name = "detectCard"
    /\ lockCall.accepted # NullCorners
    /\ trackingROI # lockCall.roiAtStart
    /\ (trackingROI.x = DZero \/ trackingROI.y = DZero)

====
